---- MODULE Spec2Model ----
(***************************************************************************)
(* StreamPay (src/contracts/StreamPay.sol): the stream ledger, the accrual *)
(* arithmetic, pause/resume, cancellation and the ERC-7715 delegation      *)
(* registry, as a state machine over the contract's storage.               *)
(*                                                                         *)
(* A call is one atomic step: the handler's operator computes the outcome  *)
(* of the call (its error, the storage and the balances it leaves) and the *)
(* action commits it.  A call that reverts leaves everything as it was.    *)
(* uint256 arithmetic is checked (Solidity 0.8): a subtraction that would  *)
(* go below zero reverts.                                                  *)
(***************************************************************************)
EXTENDS Integers, FiniteSets, Sequences, TLC

\* ---------------------------------------------------------------- bounds
MaxTime == 3        \* block.timestamp ranges over 0..MaxTime
MaxDeposit == 3     \* deposits offered to create range over 0..MaxDeposit
MaxStreams == 1     \* create is not offered once MaxStreams ids are issued
MaxGrants == 1      \* at most MaxGrants delegation triples are true at once
InitBal == 4        \* tokens alice holds before the first call
MAX_SUPPLY == 6     \* StreamToken.MAX_SUPPLY (1_000_000_000 * 10**18), scaled down
FaucetLimit == 2    \* the most one faucet call gives (1000 * 10**18), scaled down

\* ------------------------------------------------------------ identifiers
ZERO == "0x0"                       \* address(0)
THIS == "StreamPay"                 \* address(this)
TOKEN == "SPT"                      \* the ERC20 streamed
Users == {"alice", "bob", "carol"}  \* externally owned accounts (msg.sender)
Addresses == Users \cup {ZERO, THIS}
Recipients == {"bob", "alice", ZERO, THIS}  \* recipients offered to create
Grantors == {"alice", "bob"}        \* callers of authorize/revoke
Delegates == {"carol", ZERO}        \* delegates offered to authorize/revoke
SelCreate == "createStreamOnBehalf"
SelWithdraw == "withdrawFromStreamOnBehalf"
SelCancel == "cancelStreamOnBehalf"
Selectors == {SelCreate, SelWithdraw, SelCancel}
StreamIds == 1..(MaxStreams + 1)    \* ids a caller may name; the last is never issued
Times == 0..MaxTime
Panic == -1                         \* arithmetic underflow (Panic 0x11)

\* ----------------------------------------------------------- error names
ErrNone == "ok"
ErrDelegateZero == "StreamPay: delegate is the zero address"
ErrNotAuthCreate == "StreamPay: not authorized to create stream on behalf"
ErrRecipientZero == "StreamPay: recipient is the zero address"
ErrRecipientThis == "StreamPay: recipient cannot be the contract"
ErrRecipientSender == "StreamPay: recipient cannot be the sender"
ErrDepositZero == "StreamPay: deposit is zero"
ErrStartPast == "StreamPay: start time before current time"
ErrStopBeforeStart == "StreamPay: stop time before start time"
ErrDepositSmall == "StreamPay: deposit smaller than duration (min 1 token/sec)"
ErrRecipientMismatch == "StreamPay: recipient mismatch"
ErrNotAuthWithdraw == "StreamPay: not authorized to withdraw on behalf"
ErrNotActive == "StreamPay: stream is not active"
ErrNotRecipient == "StreamPay: caller is not the recipient"
ErrNothing == "StreamPay: no tokens available for withdrawal"
ErrExceeds == "StreamPay: amount exceeds withdrawable balance"
ErrSenderMismatch == "StreamPay: sender mismatch"
ErrNotAuthCancel == "StreamPay: not authorized to cancel on behalf"
ErrNotParty == "StreamPay: caller is not the sender or recipient"
ErrAlreadyActive == "StreamPay: stream is already active"
ErrOnlySender == "StreamPay: only sender can resume the stream"
ErrNoFunds == "StreamPay: no funds left in the stream"
ErrPanic == "Panic(0x11)"
ErrPull == "SafeERC20: transferFrom failed"
ErrPushRecipient == "SafeERC20: transfer to recipient failed"
ErrPushSender == "SafeERC20: transfer to sender failed"
ErrReentrant == "ReentrancyGuard: reentrant call"
ErrInitialSupply == "Initial supply exceeds maximum"
ErrNotMinter == "StreamToken: caller is not a minter"
ErrMinterZero == "StreamToken: cannot add zero address as minter"
ErrMintToZero == "StreamToken: mint to the zero address"
ErrExceedsSupply == "StreamToken: exceeds maximum supply"
ErrFaucetLimit == "StreamToken: faucet limited to 1000 tokens"
ErrNotOwner == "OwnableUnauthorizedAccount"
ErrInvalidOwner == "OwnableInvalidOwner"
ErrInvalidReceiver == "ERC20InvalidReceiver"
ErrInsufficientBalance == "ERC20InsufficientBalance"

\* ReentrancyGuard._status
NOT_ENTERED == "NOT_ENTERED"
ENTERED == "ENTERED"

VARIABLES
  now,             \* block.timestamp
  streams,         \* mapping(uint256 => Stream)
  nextStreamId,    \* _nextStreamId
  auth,            \* _delegateAuthorizations: the triples that are true
  bal,             \* TOKEN balances of the accounts and of the contract
  hist,            \* per stream: creation window, amounts pushed, last successful operation
  _status,         \* ReentrancyGuard: ENTERED while a nonReentrant function runs
  pending,         \* the call that is inside a call to the token, if any
  _owner,          \* StreamToken: Ownable._owner
  _minters,        \* StreamToken: the accounts whose _minters entry is true
  _totalSupply,    \* StreamToken: ERC20._totalSupply
  _balances        \* StreamToken: ERC20._balances

\* The storage of StreamPay, the clock, the token balances and the history.
streamVars == <<now, streams, nextStreamId, auth, bal, hist, _status, pending>>

\* The storage of StreamToken.
tokenVars == <<_owner, _minters, _totalSupply, _balances>>

vars == <<now, streams, nextStreamId, auth, bal, hist, _status, pending,
          _owner, _minters, _totalSupply, _balances>>

\* The value a mapping returns for a key never written.
NoStream ==
  [sender |-> ZERO, recipient |-> ZERO, tokenAddress |-> ZERO, startTime |-> 0,
   stopTime |-> 0, deposit |-> 0, ratePerSecond |-> 0, remaining |-> 0, isActive |-> FALSE]

NoHist ==
  [startTime0 |-> 0, stopTime0 |-> 0, toRecipient |-> 0, toSender |-> 0,
   lastOp |-> "none", cycle |-> "none"]

\* The storage and balances a call works on, and what it pushed.
Tx(st, nid, b) ==
  [err |-> ErrNone, streams |-> st, nextStreamId |-> nid, bal |-> b,
   pushRecipient |-> 0, pushSender |-> 0, ret |-> 0]

\* A revert: every write of the call is rolled back.
Revert(msg) ==
  [err |-> msg, streams |-> streams, nextStreamId |-> nextStreamId, bal |-> bal,
   pushRecipient |-> 0, pushSender |-> 0, ret |-> 0]

\* modifier nonReentrant: a guarded function entered while another one runs reverts.
nonReentrant_noCheck(tx) == tx

nonReentrant(tx) == IF _status = ENTERED THEN Revert(ErrReentrant) ELSE tx

\* ------------------------------------------------------ asset transfer port
\* Mutant: the token keeps a fee of 1 on every pull.
safeTransferFrom_feeOnTransfer(b, from, amount, accept) ==
  IF accept /\ b[from] >= amount
    THEN [ok |-> TRUE,
          bal |-> [b EXCEPT ![from] = @ - amount,
                            ![THIS] = @ + (IF amount > 0 THEN amount - 1 ELSE 0)]]
    ELSE [ok |-> FALSE, bal |-> b]

\* IERC20.safeTransferFrom(from, address(this), amount): `accept` is the
\* token's own verdict (allowance, pausing, ...); it also fails on a short balance.
safeTransferFrom(b, from, amount, accept) ==
  IF accept /\ b[from] >= amount
    THEN [ok |-> TRUE, bal |-> [b EXCEPT ![from] = @ - amount, ![THIS] = @ + amount]]
    ELSE [ok |-> FALSE, bal |-> b]

\* IERC20.safeTransfer(to, amount) from the contract's holding.
safeTransfer(b, to, amount, accept) ==
  IF accept /\ b[THIS] >= amount
    THEN [ok |-> TRUE, bal |-> [b EXCEPT ![THIS] = @ - amount, ![to] = @ + amount]]
    ELSE [ok |-> FALSE, bal |-> b]

\* ------------------------------------------------------------ authorization
isAuthorizedDelegate(a, delegator, delegate, functionSelector) ==
  <<delegator, delegate, functionSelector>> \in a

\* Mutant: the zero address is accepted as a delegate.
authorizeDelegate_noZeroCheck(msgSender, delegate, functionSelector) ==
  [err |-> ErrNone, auth |-> auth \cup {<<msgSender, delegate, functionSelector>>}]

\* Mutant: the grant is stored under the delegate as the delegator.
authorizeDelegate_swappedKeys(msgSender, delegate, functionSelector) ==
  IF delegate = ZERO
    THEN [err |-> ErrDelegateZero, auth |-> auth]
    ELSE [err |-> ErrNone, auth |-> auth \cup {<<delegate, msgSender, functionSelector>>}]

authorizeDelegate(msgSender, delegate, functionSelector) ==
  IF delegate = ZERO
    THEN [err |-> ErrDelegateZero, auth |-> auth]
    ELSE [err |-> ErrNone, auth |-> auth \cup {<<msgSender, delegate, functionSelector>>}]

\* Mutant: revoking a grant that is not set is an error.
revokeDelegate_failsIfAbsent(msgSender, delegate, functionSelector) ==
  IF <<msgSender, delegate, functionSelector>> \in auth
    THEN [err |-> ErrNone, auth |-> auth \ {<<msgSender, delegate, functionSelector>>}]
    ELSE [err |-> ErrNotAuthCancel, auth |-> auth]

revokeDelegate(msgSender, delegate, functionSelector) ==
  [err |-> ErrNone, auth |-> auth \ {<<msgSender, delegate, functionSelector>>}]

\* ------------------------------------------------------------------ accrual
\* Mutant: the elapsed time is not capped at the stop time.
withdrawableAmount_uncapped(st, streamId, t) ==
  LET stream == st[streamId] IN
  IF ~stream.isActive \/ t < stream.startTime THEN 0
  ELSE
    LET elapsedTime == t - stream.startTime
        earned == elapsedTime * stream.ratePerSecond
        withdrawable == IF earned > stream.deposit THEN stream.deposit ELSE earned
        disbursed == stream.deposit - stream.remaining
    IN IF disbursed < 0 \/ withdrawable < disbursed THEN Panic
       ELSE withdrawable - disbursed

\* Mutant: what was already disbursed is not taken off the earned amount.
withdrawableAmount_ignoresDisbursed(st, streamId, t) ==
  LET stream == st[streamId] IN
  IF ~stream.isActive \/ t < stream.startTime THEN 0
  ELSE
    LET elapsedTime == IF t >= stream.stopTime
                         THEN stream.stopTime - stream.startTime
                         ELSE t - stream.startTime
    IN IF elapsedTime < 0 THEN Panic
       ELSE
         LET earned == elapsedTime * stream.ratePerSecond
         IN IF earned > stream.deposit THEN stream.deposit ELSE earned

\* withdrawableAmount(streamId) evaluated on storage st at block.timestamp t.
withdrawableAmount(st, streamId, t) ==
  LET stream == st[streamId] IN
  IF ~stream.isActive \/ t < stream.startTime THEN 0
  ELSE
    LET elapsedTime == IF t >= stream.stopTime
                         THEN stream.stopTime - stream.startTime
                         ELSE t - stream.startTime
    IN IF elapsedTime < 0 THEN Panic
       ELSE
         LET earned == elapsedTime * stream.ratePerSecond
             withdrawable == IF earned > stream.deposit THEN stream.deposit ELSE earned
             disbursed == stream.deposit - stream.remaining
         IN IF disbursed < 0 \/ withdrawable < disbursed THEN Panic
            ELSE withdrawable - disbursed

\* ----------------------------------------------------------------- create
\* Mutant: the result of the pull is not checked.
_createStream_uncheckedPull(sender, recipient, deposit, tokenAddress, startTime, stopTime, accept) ==
  IF recipient = ZERO THEN Revert(ErrRecipientZero)
  ELSE IF recipient = THIS THEN Revert(ErrRecipientThis)
  ELSE IF recipient = sender THEN Revert(ErrRecipientSender)
  ELSE IF ~(deposit > 0) THEN Revert(ErrDepositZero)
  ELSE IF ~(startTime >= now) THEN Revert(ErrStartPast)
  ELSE IF ~(stopTime > startTime) THEN Revert(ErrStopBeforeStart)
  ELSE IF ~(deposit >= stopTime - startTime) THEN Revert(ErrDepositSmall)
  ELSE
    LET pull == safeTransferFrom(bal, sender, deposit, accept)
        stream == [sender |-> sender, recipient |-> recipient,
                   tokenAddress |-> tokenAddress, startTime |-> startTime,
                   stopTime |-> stopTime, deposit |-> deposit,
                   ratePerSecond |-> deposit \div (stopTime - startTime),
                   remaining |-> deposit, isActive |-> TRUE]
    IN [Tx([streams EXCEPT ![nextStreamId] = stream], nextStreamId + 1, pull.bal)
          EXCEPT !.ret = nextStreamId]

\* Mutant: the minimum-rate check (deposit >= duration) is missing.
_createStream_noMinRate(sender, recipient, deposit, tokenAddress, startTime, stopTime, accept) ==
  IF recipient = ZERO THEN Revert(ErrRecipientZero)
  ELSE IF recipient = THIS THEN Revert(ErrRecipientThis)
  ELSE IF recipient = sender THEN Revert(ErrRecipientSender)
  ELSE IF ~(deposit > 0) THEN Revert(ErrDepositZero)
  ELSE IF ~(startTime >= now) THEN Revert(ErrStartPast)
  ELSE IF ~(stopTime > startTime) THEN Revert(ErrStopBeforeStart)
  ELSE
    LET pull == safeTransferFrom(bal, sender, deposit, accept)
        stream == [sender |-> sender, recipient |-> recipient,
                   tokenAddress |-> tokenAddress, startTime |-> startTime,
                   stopTime |-> stopTime, deposit |-> deposit,
                   ratePerSecond |-> deposit \div (stopTime - startTime),
                   remaining |-> deposit, isActive |-> TRUE]
    IN IF ~pull.ok THEN Revert(ErrPull)
       ELSE [Tx([streams EXCEPT ![nextStreamId] = stream], nextStreamId + 1, pull.bal)
               EXCEPT !.ret = nextStreamId]

\* Mutant: the id counter is read but not incremented.
_createStream_noIncrement(sender, recipient, deposit, tokenAddress, startTime, stopTime, accept) ==
  IF recipient = ZERO THEN Revert(ErrRecipientZero)
  ELSE IF recipient = THIS THEN Revert(ErrRecipientThis)
  ELSE IF recipient = sender THEN Revert(ErrRecipientSender)
  ELSE IF ~(deposit > 0) THEN Revert(ErrDepositZero)
  ELSE IF ~(startTime >= now) THEN Revert(ErrStartPast)
  ELSE IF ~(stopTime > startTime) THEN Revert(ErrStopBeforeStart)
  ELSE IF ~(deposit >= stopTime - startTime) THEN Revert(ErrDepositSmall)
  ELSE
    LET pull == safeTransferFrom(bal, sender, deposit, accept)
        stream == [sender |-> sender, recipient |-> recipient,
                   tokenAddress |-> tokenAddress, startTime |-> startTime,
                   stopTime |-> stopTime, deposit |-> deposit,
                   ratePerSecond |-> deposit \div (stopTime - startTime),
                   remaining |-> deposit, isActive |-> TRUE]
    IN IF ~pull.ok THEN Revert(ErrPull)
       ELSE [Tx([streams EXCEPT ![nextStreamId] = stream], nextStreamId, pull.bal)
               EXCEPT !.ret = nextStreamId]

_createStream(sender, recipient, deposit, tokenAddress, startTime, stopTime, accept) ==
  IF recipient = ZERO THEN Revert(ErrRecipientZero)
  ELSE IF recipient = THIS THEN Revert(ErrRecipientThis)
  ELSE IF recipient = sender THEN Revert(ErrRecipientSender)
  ELSE IF ~(deposit > 0) THEN Revert(ErrDepositZero)
  ELSE IF ~(startTime >= now) THEN Revert(ErrStartPast)
  ELSE IF ~(stopTime > startTime) THEN Revert(ErrStopBeforeStart)
  ELSE
    LET duration == stopTime - startTime IN
    IF ~(deposit >= duration) THEN Revert(ErrDepositSmall)
    ELSE
      LET ratePerSecond == deposit \div duration
          pull == safeTransferFrom(bal, sender, deposit, accept)
          streamId == nextStreamId
          stream == [sender |-> sender, recipient |-> recipient,
                     tokenAddress |-> tokenAddress, startTime |-> startTime,
                     stopTime |-> stopTime, deposit |-> deposit,
                     ratePerSecond |-> ratePerSecond, remaining |-> deposit,
                     isActive |-> TRUE]
      IN IF ~pull.ok THEN Revert(ErrPull)
         ELSE [Tx([streams EXCEPT ![streamId] = stream], nextStreamId + 1, pull.bal)
                 EXCEPT !.ret = streamId]

createStream(msgSender, recipient, deposit, tokenAddress, startTime, stopTime, accept) ==
  nonReentrant(
    _createStream(msgSender, recipient, deposit, tokenAddress, startTime, stopTime, accept))

createStreamOnBehalf(msgSender, sender, recipient, deposit, tokenAddress, startTime, stopTime, accept) ==
  nonReentrant(
    IF ~isAuthorizedDelegate(auth, sender, msgSender, SelCreate)
      THEN Revert(ErrNotAuthCreate)
      ELSE _createStream(sender, recipient, deposit, tokenAddress, startTime, stopTime, accept))

\* --------------------------------------------------------------- withdraw
\* Mutant: a failed push is reported but the record written before it is kept.
_withdrawFromStream_noRollback(streamId, recipient, amount, accept) ==
  LET stream == streams[streamId]
      withdrawable == withdrawableAmount(streams, streamId, now)
      withdrawAmount == IF amount = 0 THEN withdrawable ELSE amount
  IN
  IF ~stream.isActive THEN Revert(ErrNotActive)
  ELSE IF stream.recipient # recipient THEN Revert(ErrNotRecipient)
  ELSE IF withdrawable = Panic THEN Revert(ErrPanic)
  ELSE IF ~(withdrawable > 0) THEN Revert(ErrNothing)
  ELSE IF ~(withdrawAmount <= withdrawable) THEN Revert(ErrExceeds)
  ELSE IF stream.remaining < withdrawAmount THEN Revert(ErrPanic)
  ELSE
    LET remaining1 == stream.remaining - withdrawAmount
        isActive1 == ~(now >= stream.stopTime \/ remaining1 = 0)
        st1 == [streams EXCEPT ![streamId].remaining = remaining1,
                               ![streamId].isActive = isActive1]
        push == safeTransfer(bal, recipient, withdrawAmount, accept)
    IN IF ~push.ok THEN [Tx(st1, nextStreamId, bal) EXCEPT !.err = ErrPushRecipient]
       ELSE [Tx(st1, nextStreamId, push.bal) EXCEPT !.pushRecipient = withdrawAmount]

\* Mutant: accrual is restarted at the time of the withdraw.
_withdrawFromStream_movesStart(streamId, recipient, amount, accept) ==
  LET stream == streams[streamId] IN
  IF ~stream.isActive THEN Revert(ErrNotActive)
  ELSE IF stream.recipient # recipient THEN Revert(ErrNotRecipient)
  ELSE
    LET withdrawable == withdrawableAmount(streams, streamId, now) IN
    IF withdrawable = Panic THEN Revert(ErrPanic)
    ELSE IF ~(withdrawable > 0) THEN Revert(ErrNothing)
    ELSE
      LET withdrawAmount == IF amount = 0 THEN withdrawable ELSE amount IN
      IF ~(withdrawAmount <= withdrawable) THEN Revert(ErrExceeds)
      ELSE IF stream.remaining < withdrawAmount THEN Revert(ErrPanic)
      ELSE
        LET remaining1 == stream.remaining - withdrawAmount
            isActive1 == ~(now >= stream.stopTime \/ remaining1 = 0)
            st1 == [streams EXCEPT ![streamId].remaining = remaining1,
                                   ![streamId].startTime = now,
                                   ![streamId].isActive = isActive1]
            push == safeTransfer(bal, recipient, withdrawAmount, accept)
        IN IF ~push.ok THEN Revert(ErrPushRecipient)
           ELSE [Tx(st1, nextStreamId, push.bal) EXCEPT !.pushRecipient = withdrawAmount]

\* Mutant: the amount paid is not taken off remaining.
_withdrawFromStream_keepsRemaining(streamId, recipient, amount, accept) ==
  LET stream == streams[streamId] IN
  IF ~stream.isActive THEN Revert(ErrNotActive)
  ELSE IF stream.recipient # recipient THEN Revert(ErrNotRecipient)
  ELSE
    LET withdrawable == withdrawableAmount(streams, streamId, now) IN
    IF withdrawable = Panic THEN Revert(ErrPanic)
    ELSE IF ~(withdrawable > 0) THEN Revert(ErrNothing)
    ELSE
      LET withdrawAmount == IF amount = 0 THEN withdrawable ELSE amount IN
      IF ~(withdrawAmount <= withdrawable) THEN Revert(ErrExceeds)
      ELSE IF stream.remaining < withdrawAmount THEN Revert(ErrPanic)
      ELSE
        LET isActive1 == ~(now >= stream.stopTime \/ stream.remaining = 0)
            st1 == [streams EXCEPT ![streamId].isActive = isActive1]
            push == safeTransfer(bal, recipient, withdrawAmount, accept)
        IN IF ~push.ok THEN Revert(ErrPushRecipient)
           ELSE [Tx(st1, nextStreamId, push.bal) EXCEPT !.pushRecipient = withdrawAmount]

\* Mutant: an amount of 0 is taken literally instead of meaning "everything".
_withdrawFromStream_zeroIsZero(streamId, recipient, amount, accept) ==
  LET stream == streams[streamId] IN
  IF ~stream.isActive THEN Revert(ErrNotActive)
  ELSE IF stream.recipient # recipient THEN Revert(ErrNotRecipient)
  ELSE
    LET withdrawable == withdrawableAmount(streams, streamId, now) IN
    IF withdrawable = Panic THEN Revert(ErrPanic)
    ELSE IF ~(withdrawable > 0) THEN Revert(ErrNothing)
    ELSE
      LET withdrawAmount == amount IN
      IF ~(withdrawAmount <= withdrawable) THEN Revert(ErrExceeds)
      ELSE IF stream.remaining < withdrawAmount THEN Revert(ErrPanic)
      ELSE
        LET remaining1 == stream.remaining - withdrawAmount
            isActive1 == ~(now >= stream.stopTime \/ remaining1 = 0)
            st1 == [streams EXCEPT ![streamId].remaining = remaining1,
                                   ![streamId].isActive = isActive1]
            push == safeTransfer(bal, recipient, withdrawAmount, accept)
        IN IF ~push.ok THEN Revert(ErrPushRecipient)
           ELSE [Tx(st1, nextStreamId, push.bal) EXCEPT !.pushRecipient = withdrawAmount]

\* Mutant: the requested amount is not compared with the withdrawable amount.
_withdrawFromStream_noLimit(streamId, recipient, amount, accept) ==
  LET stream == streams[streamId] IN
  IF ~stream.isActive THEN Revert(ErrNotActive)
  ELSE IF stream.recipient # recipient THEN Revert(ErrNotRecipient)
  ELSE
    LET withdrawable == withdrawableAmount(streams, streamId, now) IN
    IF withdrawable = Panic THEN Revert(ErrPanic)
    ELSE IF ~(withdrawable > 0) THEN Revert(ErrNothing)
    ELSE
      LET withdrawAmount == IF amount = 0 THEN withdrawable ELSE amount IN
      IF stream.remaining < withdrawAmount THEN Revert(ErrPanic)
      ELSE
        LET remaining1 == stream.remaining - withdrawAmount
            isActive1 == ~(now >= stream.stopTime \/ remaining1 = 0)
            st1 == [streams EXCEPT ![streamId].remaining = remaining1,
                                   ![streamId].isActive = isActive1]
            push == safeTransfer(bal, recipient, withdrawAmount, accept)
        IN IF ~push.ok THEN Revert(ErrPushRecipient)
           ELSE [Tx(st1, nextStreamId, push.bal) EXCEPT !.pushRecipient = withdrawAmount]

\* Mutant: the stream is set inactive only when remaining reaches 0.
_withdrawFromStream_endsOnlyWhenEmpty(streamId, recipient, amount, accept) ==
  LET stream == streams[streamId] IN
  IF ~stream.isActive THEN Revert(ErrNotActive)
  ELSE IF stream.recipient # recipient THEN Revert(ErrNotRecipient)
  ELSE
    LET withdrawable == withdrawableAmount(streams, streamId, now) IN
    IF withdrawable = Panic THEN Revert(ErrPanic)
    ELSE IF ~(withdrawable > 0) THEN Revert(ErrNothing)
    ELSE
      LET withdrawAmount == IF amount = 0 THEN withdrawable ELSE amount IN
      IF ~(withdrawAmount <= withdrawable) THEN Revert(ErrExceeds)
      ELSE IF stream.remaining < withdrawAmount THEN Revert(ErrPanic)
      ELSE
        LET remaining1 == stream.remaining - withdrawAmount
            isActive1 == ~(remaining1 = 0)
            st1 == [streams EXCEPT ![streamId].remaining = remaining1,
                                   ![streamId].isActive = isActive1]
            push == safeTransfer(bal, recipient, withdrawAmount, accept)
        IN IF ~push.ok THEN Revert(ErrPushRecipient)
           ELSE [Tx(st1, nextStreamId, push.bal) EXCEPT !.pushRecipient = withdrawAmount]

_withdrawFromStream(streamId, recipient, amount, accept) ==
  LET stream == streams[streamId] IN
  IF ~stream.isActive THEN Revert(ErrNotActive)
  ELSE IF stream.recipient # recipient THEN Revert(ErrNotRecipient)
  ELSE
    LET withdrawable == withdrawableAmount(streams, streamId, now) IN
    IF withdrawable = Panic THEN Revert(ErrPanic)
    ELSE IF ~(withdrawable > 0) THEN Revert(ErrNothing)
    ELSE
      LET withdrawAmount == IF amount = 0 THEN withdrawable ELSE amount IN
      IF ~(withdrawAmount <= withdrawable) THEN Revert(ErrExceeds)
      ELSE IF stream.remaining < withdrawAmount THEN Revert(ErrPanic)
      ELSE
        LET remaining1 == stream.remaining - withdrawAmount
            isActive1 == ~(now >= stream.stopTime \/ remaining1 = 0)
            st1 == [streams EXCEPT ![streamId].remaining = remaining1,
                                   ![streamId].isActive = isActive1]
            push == safeTransfer(bal, recipient, withdrawAmount, accept)
        IN IF ~push.ok THEN Revert(ErrPushRecipient)
           ELSE [Tx(st1, nextStreamId, push.bal) EXCEPT !.pushRecipient = withdrawAmount]

\* Mutant: the payee is read from the record instead of being the caller.
withdrawFromStream_forStreamRecipient(msgSender, streamId, amount, accept) ==
  _withdrawFromStream(streamId, streams[streamId].recipient, amount, accept)

withdrawFromStream(msgSender, streamId, amount, accept) ==
  nonReentrant(_withdrawFromStream(streamId, msgSender, amount, accept))

\* Mutant: the grant is looked up under the selector of cancelStreamOnBehalf.
withdrawFromStreamOnBehalf_wrongSelector(msgSender, streamId, recipient, amount, accept) ==
  LET stream == streams[streamId] IN
  IF stream.recipient # recipient THEN Revert(ErrRecipientMismatch)
  ELSE IF ~isAuthorizedDelegate(auth, recipient, msgSender, SelCancel)
    THEN Revert(ErrNotAuthWithdraw)
  ELSE _withdrawFromStream(streamId, recipient, amount, accept)

withdrawFromStreamOnBehalf(msgSender, streamId, recipient, amount, accept) ==
  LET stream == streams[streamId] IN
  nonReentrant(
    IF stream.recipient # recipient THEN Revert(ErrRecipientMismatch)
    ELSE IF ~isAuthorizedDelegate(auth, recipient, msgSender, SelWithdraw)
      THEN Revert(ErrNotAuthWithdraw)
    ELSE _withdrawFromStream(streamId, recipient, amount, accept))

\* ----------------------------------------------------------------- cancel
\* Mutant: the refund is the contract's whole token balance.
_cancelStream_refundsBalance(streamId, caller, acceptRecipient, acceptSender) ==
  LET stream == streams[streamId] IN
  IF ~stream.isActive THEN Revert(ErrNotActive)
  ELSE IF ~(stream.sender = caller \/ stream.recipient = caller) THEN Revert(ErrNotParty)
  ELSE
    LET st1 == [streams EXCEPT ![streamId].isActive = FALSE]
        recipientAmount == IF now > stream.startTime
                             THEN withdrawableAmount(st1, streamId, now)
                             ELSE 0
    IN IF recipientAmount = Panic \/ bal[THIS] < recipientAmount THEN Revert(ErrPanic)
       ELSE
         LET senderRefund == bal[THIS] - recipientAmount
             st2 == [st1 EXCEPT ![streamId].remaining = 0]
             push1 == IF recipientAmount > 0
                        THEN safeTransfer(bal, stream.recipient, recipientAmount, acceptRecipient)
                        ELSE [ok |-> TRUE, bal |-> bal]
             push2 == IF senderRefund > 0
                        THEN safeTransfer(push1.bal, stream.sender, senderRefund, acceptSender)
                        ELSE [ok |-> TRUE, bal |-> push1.bal]
         IN IF ~push1.ok THEN Revert(ErrPushRecipient)
            ELSE IF ~push2.ok THEN Revert(ErrPushSender)
            ELSE [Tx(st2, nextStreamId, push2.bal)
                    EXCEPT !.pushRecipient = recipientAmount, !.pushSender = senderRefund]

\* Mutant: the refund is pushed to the recipient instead of the sender.
_cancelStream_refundToRecipient(streamId, caller, acceptRecipient, acceptSender) ==
  LET stream == streams[streamId] IN
  IF ~stream.isActive THEN Revert(ErrNotActive)
  ELSE IF ~(stream.sender = caller \/ stream.recipient = caller) THEN Revert(ErrNotParty)
  ELSE
    LET st1 == [streams EXCEPT ![streamId].isActive = FALSE]
        recipientAmount == IF now > stream.startTime
                             THEN withdrawableAmount(st1, streamId, now)
                             ELSE 0
    IN IF recipientAmount = Panic \/ stream.remaining < recipientAmount THEN Revert(ErrPanic)
       ELSE
         LET senderRefund == stream.remaining - recipientAmount
             st2 == [st1 EXCEPT ![streamId].remaining = 0]
             push1 == IF recipientAmount > 0
                        THEN safeTransfer(bal, stream.recipient, recipientAmount, acceptRecipient)
                        ELSE [ok |-> TRUE, bal |-> bal]
             push2 == IF senderRefund > 0
                        THEN safeTransfer(push1.bal, stream.recipient, senderRefund, acceptSender)
                        ELSE [ok |-> TRUE, bal |-> push1.bal]
         IN IF ~push1.ok THEN Revert(ErrPushRecipient)
            ELSE IF ~push2.ok THEN Revert(ErrPushSender)
            ELSE [Tx(st2, nextStreamId, push2.bal)
                    EXCEPT !.pushRecipient = recipientAmount + senderRefund]

\* Mutant: the withdrawable amount is computed before isActive is cleared.
_cancelStream_computesFirst(streamId, caller, acceptRecipient, acceptSender) ==
  LET stream == streams[streamId] IN
  IF ~stream.isActive THEN Revert(ErrNotActive)
  ELSE IF ~(stream.sender = caller \/ stream.recipient = caller) THEN Revert(ErrNotParty)
  ELSE
    LET recipientAmount == IF now > stream.startTime
                             THEN withdrawableAmount(streams, streamId, now)
                             ELSE 0
        st1 == [streams EXCEPT ![streamId].isActive = FALSE]
    IN IF recipientAmount = Panic \/ stream.remaining < recipientAmount THEN Revert(ErrPanic)
       ELSE
         LET senderRefund == stream.remaining - recipientAmount
             st2 == [st1 EXCEPT ![streamId].remaining = 0]
             push1 == IF recipientAmount > 0
                        THEN safeTransfer(bal, stream.recipient, recipientAmount, acceptRecipient)
                        ELSE [ok |-> TRUE, bal |-> bal]
             push2 == IF senderRefund > 0
                        THEN safeTransfer(push1.bal, stream.sender, senderRefund, acceptSender)
                        ELSE [ok |-> TRUE, bal |-> push1.bal]
         IN IF ~push1.ok THEN Revert(ErrPushRecipient)
            ELSE IF ~push2.ok THEN Revert(ErrPushSender)
            ELSE [Tx(st2, nextStreamId, push2.bal)
                    EXCEPT !.pushRecipient = recipientAmount, !.pushSender = senderRefund]

\* isActive is cleared in storage before withdrawableAmount reads the stream.
_cancelStream(streamId, caller, acceptRecipient, acceptSender) ==
  LET stream == streams[streamId] IN
  IF ~stream.isActive THEN Revert(ErrNotActive)
  ELSE IF ~(stream.sender = caller \/ stream.recipient = caller) THEN Revert(ErrNotParty)
  ELSE
    LET st1 == [streams EXCEPT ![streamId].isActive = FALSE]
        recipientAmount == IF now > stream.startTime
                             THEN withdrawableAmount(st1, streamId, now)
                             ELSE 0
    IN IF recipientAmount = Panic \/ stream.remaining < recipientAmount THEN Revert(ErrPanic)
       ELSE
         LET senderRefund == stream.remaining - recipientAmount
             st2 == [st1 EXCEPT ![streamId].remaining = 0]
             push1 == IF recipientAmount > 0
                        THEN safeTransfer(bal, stream.recipient, recipientAmount, acceptRecipient)
                        ELSE [ok |-> TRUE, bal |-> bal]
             push2 == IF senderRefund > 0
                        THEN safeTransfer(push1.bal, stream.sender, senderRefund, acceptSender)
                        ELSE [ok |-> TRUE, bal |-> push1.bal]
         IN IF ~push1.ok THEN Revert(ErrPushRecipient)
            ELSE IF ~push2.ok THEN Revert(ErrPushSender)
            ELSE [Tx(st2, nextStreamId, push2.bal)
                    EXCEPT !.pushRecipient = recipientAmount, !.pushSender = senderRefund]

cancelStream(msgSender, streamId, acceptRecipient, acceptSender) ==
  nonReentrant(_cancelStream(streamId, msgSender, acceptRecipient, acceptSender))

\* Mutant: the named principal is not compared with the stream's sender.
cancelStreamOnBehalf_anyPrincipal(msgSender, streamId, sender, acceptRecipient, acceptSender) ==
  IF ~isAuthorizedDelegate(auth, sender, msgSender, SelCancel)
    THEN Revert(ErrNotAuthCancel)
  ELSE _cancelStream(streamId, sender, acceptRecipient, acceptSender)

\* Mutant: the delegation check is missing.
cancelStreamOnBehalf_noAuth(msgSender, streamId, sender, acceptRecipient, acceptSender) ==
  LET stream == streams[streamId] IN
  IF stream.sender # sender THEN Revert(ErrSenderMismatch)
  ELSE _cancelStream(streamId, sender, acceptRecipient, acceptSender)

cancelStreamOnBehalf(msgSender, streamId, sender, acceptRecipient, acceptSender) ==
  LET stream == streams[streamId] IN
  nonReentrant(
    IF stream.sender # sender THEN Revert(ErrSenderMismatch)
    ELSE IF ~isAuthorizedDelegate(auth, sender, msgSender, SelCancel)
      THEN Revert(ErrNotAuthCancel)
    ELSE _cancelStream(streamId, sender, acceptRecipient, acceptSender))

\* ----------------------------------------------------------- pause, resume
\* Mutant: the amount accrued at the pause is pushed to the sender.
pauseStream_paysSender(msgSender, streamId, accept) ==
  LET stream == streams[streamId] IN
  IF ~stream.isActive THEN Revert(ErrNotActive)
  ELSE IF ~(stream.sender = msgSender \/ stream.recipient = msgSender) THEN Revert(ErrNotParty)
  ELSE
    LET withdrawable == withdrawableAmount(streams, streamId, now) IN
    IF withdrawable = Panic \/ stream.remaining < withdrawable THEN Revert(ErrPanic)
    ELSE
      LET timeRemaining == IF now < stream.stopTime THEN stream.stopTime - now ELSE 0
          st1 == [streams EXCEPT ![streamId].remaining = @ - withdrawable,
                                 ![streamId].stopTime = timeRemaining,
                                 ![streamId].isActive = FALSE]
          push == IF withdrawable > 0
                    THEN safeTransfer(bal, stream.sender, withdrawable, accept)
                    ELSE [ok |-> TRUE, bal |-> bal]
      IN IF ~push.ok THEN Revert(ErrPushRecipient)
         ELSE [Tx(st1, nextStreamId, push.bal) EXCEPT !.pushSender = withdrawable]

\* Mutant: a holder of the sender's cancel grant passes the party check.
pauseStream_delegateMayPause(msgSender, streamId, accept) ==
  LET stream == streams[streamId] IN
  IF ~stream.isActive THEN Revert(ErrNotActive)
  ELSE IF ~(\/ stream.sender = msgSender
            \/ stream.recipient = msgSender
            \/ isAuthorizedDelegate(auth, stream.sender, msgSender, SelCancel))
    THEN Revert(ErrNotParty)
  ELSE
    LET withdrawable == withdrawableAmount(streams, streamId, now) IN
    IF withdrawable = Panic \/ stream.remaining < withdrawable THEN Revert(ErrPanic)
    ELSE
      LET timeRemaining == IF now < stream.stopTime THEN stream.stopTime - now ELSE 0
          st1 == [streams EXCEPT ![streamId].remaining = @ - withdrawable,
                                 ![streamId].stopTime = timeRemaining,
                                 ![streamId].isActive = FALSE]
          push == IF withdrawable > 0
                    THEN safeTransfer(bal, stream.recipient, withdrawable, accept)
                    ELSE [ok |-> TRUE, bal |-> bal]
      IN IF ~push.ok THEN Revert(ErrPushRecipient)
         ELSE [Tx(st1, nextStreamId, push.bal) EXCEPT !.pushRecipient = withdrawable]

\* Mutant: the amount paid at the pause is not taken off remaining.
pauseStream_keepsRemaining(msgSender, streamId, accept) ==
  LET stream == streams[streamId] IN
  IF ~stream.isActive THEN Revert(ErrNotActive)
  ELSE IF ~(stream.sender = msgSender \/ stream.recipient = msgSender) THEN Revert(ErrNotParty)
  ELSE
    LET withdrawable == withdrawableAmount(streams, streamId, now) IN
    IF withdrawable = Panic \/ stream.remaining < withdrawable THEN Revert(ErrPanic)
    ELSE
      LET timeRemaining == IF now < stream.stopTime THEN stream.stopTime - now ELSE 0
          st1 == [streams EXCEPT ![streamId].stopTime = timeRemaining,
                                 ![streamId].isActive = FALSE]
          push == IF withdrawable > 0
                    THEN safeTransfer(bal, stream.recipient, withdrawable, accept)
                    ELSE [ok |-> TRUE, bal |-> bal]
      IN IF ~push.ok THEN Revert(ErrPushRecipient)
         ELSE [Tx(st1, nextStreamId, push.bal) EXCEPT !.pushRecipient = withdrawable]

\* Mutant: the time left is not stored in stopTime.
pauseStream_keepsStop(msgSender, streamId, accept) ==
  LET stream == streams[streamId] IN
  IF ~stream.isActive THEN Revert(ErrNotActive)
  ELSE IF ~(stream.sender = msgSender \/ stream.recipient = msgSender) THEN Revert(ErrNotParty)
  ELSE
    LET withdrawable == withdrawableAmount(streams, streamId, now) IN
    IF withdrawable = Panic \/ stream.remaining < withdrawable THEN Revert(ErrPanic)
    ELSE
      LET st1 == [streams EXCEPT ![streamId].remaining = @ - withdrawable,
                                 ![streamId].isActive = FALSE]
          push == IF withdrawable > 0
                    THEN safeTransfer(bal, stream.recipient, withdrawable, accept)
                    ELSE [ok |-> TRUE, bal |-> bal]
      IN IF ~push.ok THEN Revert(ErrPushRecipient)
         ELSE [Tx(st1, nextStreamId, push.bal) EXCEPT !.pushRecipient = withdrawable]

pauseStream(msgSender, streamId, accept) ==
  LET stream == streams[streamId] IN
  nonReentrant(
    IF ~stream.isActive THEN Revert(ErrNotActive)
    ELSE IF ~(stream.sender = msgSender \/ stream.recipient = msgSender) THEN Revert(ErrNotParty)
    ELSE
      LET withdrawable == withdrawableAmount(streams, streamId, now) IN
      IF withdrawable = Panic \/ stream.remaining < withdrawable THEN Revert(ErrPanic)
      ELSE
        LET timeRemaining == IF now < stream.stopTime THEN stream.stopTime - now ELSE 0
            st1 == [streams EXCEPT ![streamId].remaining = @ - withdrawable,
                                   ![streamId].stopTime = timeRemaining,
                                   ![streamId].isActive = FALSE]
            push == IF withdrawable > 0
                      THEN safeTransfer(bal, stream.recipient, withdrawable, accept)
                      ELSE [ok |-> TRUE, bal |-> bal]
        IN IF ~push.ok THEN Revert(ErrPushRecipient)
           ELSE [Tx(st1, nextStreamId, push.bal) EXCEPT !.pushRecipient = withdrawable])

\* Mutant: the rate is recomputed over the restored window.
resumeStream_recomputesRate(msgSender, streamId) ==
  LET stream == streams[streamId] IN
  IF stream.isActive THEN Revert(ErrAlreadyActive)
  ELSE IF stream.sender # msgSender THEN Revert(ErrOnlySender)
  ELSE IF ~(stream.remaining > 0) THEN Revert(ErrNoFunds)
  ELSE
    LET timeRemaining == stream.stopTime
        ratePerSecond == IF timeRemaining > 0 THEN stream.remaining \div timeRemaining
                                              ELSE stream.ratePerSecond
    IN Tx([streams EXCEPT ![streamId].startTime = now,
                          ![streamId].stopTime = now + timeRemaining,
                          ![streamId].ratePerSecond = ratePerSecond,
                          ![streamId].isActive = TRUE],
          nextStreamId, bal)

\* Mutant: either party of the stream may resume it.
resumeStream_byEitherParty(msgSender, streamId) ==
  LET stream == streams[streamId] IN
  IF stream.isActive THEN Revert(ErrAlreadyActive)
  ELSE IF ~(stream.sender = msgSender \/ stream.recipient = msgSender) THEN Revert(ErrOnlySender)
  ELSE IF ~(stream.remaining > 0) THEN Revert(ErrNoFunds)
  ELSE
    LET timeRemaining == stream.stopTime
    IN Tx([streams EXCEPT ![streamId].startTime = now,
                          ![streamId].stopTime = now + timeRemaining,
                          ![streamId].isActive = TRUE],
          nextStreamId, bal)

\* Mutant: the stored time left is taken as the new stop time itself.
resumeStream_absoluteStop(msgSender, streamId) ==
  LET stream == streams[streamId] IN
  IF stream.isActive THEN Revert(ErrAlreadyActive)
  ELSE IF stream.sender # msgSender THEN Revert(ErrOnlySender)
  ELSE IF ~(stream.remaining > 0) THEN Revert(ErrNoFunds)
  ELSE
    LET timeRemaining == stream.stopTime
    IN Tx([streams EXCEPT ![streamId].startTime = now,
                          ![streamId].stopTime = timeRemaining,
                          ![streamId].isActive = TRUE],
          nextStreamId, bal)

\* Mutant: resume requires only that the record is inactive.
resumeStream_onlyInactiveCheck(msgSender, streamId) ==
  LET stream == streams[streamId] IN
  IF stream.isActive THEN Revert(ErrAlreadyActive)
  ELSE
    LET timeRemaining == stream.stopTime
    IN Tx([streams EXCEPT ![streamId].startTime = now,
                          ![streamId].stopTime = now + timeRemaining,
                          ![streamId].isActive = TRUE],
          nextStreamId, bal)

resumeStream(msgSender, streamId) ==
  LET stream == streams[streamId] IN
  nonReentrant(
    IF stream.isActive THEN Revert(ErrAlreadyActive)
    ELSE IF stream.sender # msgSender THEN Revert(ErrOnlySender)
    ELSE IF ~(stream.remaining > 0) THEN Revert(ErrNoFunds)
    ELSE
      LET timeRemaining == stream.stopTime
      IN Tx([streams EXCEPT ![streamId].startTime = now,
                            ![streamId].stopTime = now + timeRemaining,
                            ![streamId].isActive = TRUE],
            nextStreamId, bal))

\* ------------------------------------------------------------- StreamToken
\* The storage a call of the token works on.
TokenTx(o, m, ts, b) ==
  [err |-> ErrNone, _owner |-> o, _minters |-> m, _totalSupply |-> ts, _balances |-> b]

\* A revert of a call of the token.
TokenRevert(msg) ==
  [err |-> msg, _owner |-> _owner, _minters |-> _minters,
   _totalSupply |-> _totalSupply, _balances |-> _balances]

\* constructor(initialSupply), called by the deployer.
constructor(msgSender, initialSupply) ==
  IF ~(initialSupply <= MAX_SUPPLY) THEN [TokenTx(ZERO, {}, 0, [a \in Addresses |-> 0])
                                            EXCEPT !.err = ErrInitialSupply]
  ELSE TokenTx(msgSender, {}, initialSupply,
               [a \in Addresses |-> IF a = msgSender THEN initialSupply ELSE 0])

isMinter(account) == account \in _minters \/ account = _owner

addMinter(msgSender, account) ==
  IF msgSender # _owner THEN TokenRevert(ErrNotOwner)
  ELSE IF account = ZERO THEN TokenRevert(ErrMinterZero)
  ELSE TokenTx(_owner, _minters \cup {account}, _totalSupply, _balances)

removeMinter(msgSender, account) ==
  IF msgSender # _owner THEN TokenRevert(ErrNotOwner)
  ELSE TokenTx(_owner, _minters \ {account}, _totalSupply, _balances)

\* Ownable.transferOwnership(newOwner)
transferOwnership(msgSender, newOwner) ==
  IF msgSender # _owner THEN TokenRevert(ErrNotOwner)
  ELSE IF newOwner = ZERO THEN TokenRevert(ErrInvalidOwner)
  ELSE TokenTx(newOwner, _minters, _totalSupply, _balances)

\* Ownable.renounceOwnership()
renounceOwnership(msgSender) ==
  IF msgSender # _owner THEN TokenRevert(ErrNotOwner)
  ELSE TokenTx(ZERO, _minters, _totalSupply, _balances)

\* ERC20._mint(account, value)
_mint(account, value) ==
  IF account = ZERO THEN TokenRevert(ErrInvalidReceiver)
  ELSE TokenTx(_owner, _minters, _totalSupply + value,
               [_balances EXCEPT ![account] = @ + value])

\* Mutant: the supply is not compared with the cap.
mint_noCap(msgSender, to, amount) ==
  IF ~isMinter(msgSender) THEN TokenRevert(ErrNotMinter)
  ELSE IF to = ZERO THEN TokenRevert(ErrMintToZero)
  ELSE _mint(to, amount)

mint(msgSender, to, amount) ==
  IF ~isMinter(msgSender) THEN TokenRevert(ErrNotMinter)
  ELSE IF to = ZERO THEN TokenRevert(ErrMintToZero)
  ELSE IF ~(_totalSupply + amount <= MAX_SUPPLY) THEN TokenRevert(ErrExceedsSupply)
  ELSE _mint(to, amount)

faucet(msgSender, amount) ==
  IF ~(amount <= FaucetLimit) THEN TokenRevert(ErrFaucetLimit)
  ELSE IF ~(_totalSupply + amount <= MAX_SUPPLY) THEN TokenRevert(ErrExceedsSupply)
  ELSE _mint(msgSender, amount)

\* ERC20Burnable.burn(value)
burn(msgSender, value) ==
  IF _balances[msgSender] < value THEN TokenRevert(ErrInsufficientBalance)
  ELSE TokenTx(_owner, _minters, _totalSupply - value,
               [_balances EXCEPT ![msgSender] = @ - value])

\* ERC20.transfer(to, value)
transfer(msgSender, to, value) ==
  IF to = ZERO THEN TokenRevert(ErrInvalidReceiver)
  ELSE IF _balances[msgSender] < value THEN TokenRevert(ErrInsufficientBalance)
  ELSE TokenTx(_owner, _minters, _totalSupply,
               [_balances EXCEPT ![msgSender] = @ - value, ![to] = @ + value])

\* The token as its constructor leaves it.
TokenInit(msgSender, initialSupply) ==
  LET tx == constructor(msgSender, initialSupply) IN
  /\ tx.err = ErrNone
  /\ _owner = tx._owner
  /\ _minters = tx._minters
  /\ _totalSupply = tx._totalSupply
  /\ _balances = tx._balances

\* ------------------------------------------------------------ state machine
\* No call is inside a call to the token.
NoCall == [op |-> "none"]

\* StreamPay after its constructor; alice holds InitBal tokens.
InitStreamPay ==
  /\ now = 0
  /\ streams = [i \in StreamIds |-> NoStream]
  /\ nextStreamId = 1
  /\ auth = {}
  /\ bal = [a \in Addresses |-> IF a = "alice" THEN InitBal ELSE 0]
  /\ hist = [i \in StreamIds |-> NoHist]
  /\ _status = NOT_ENTERED
  /\ pending = NoCall

Init ==
  /\ InitStreamPay
  /\ TokenInit("alice", 0)

\* The pushes of a call on stream id, added to the stream's totals; a
\* successful call is also recorded as the stream's last operation.
Pushed(id, tx, op, cyc) ==
  [hist EXCEPT ![id].toRecipient = @ + tx.pushRecipient,
               ![id].toSender = @ + tx.pushSender,
               ![id].lastOp = IF tx.err = ErrNone THEN op ELSE @,
               ![id].cycle = IF tx.err = ErrNone THEN cyc ELSE @]

Commit(tx) ==
  /\ streams' = tx.streams
  /\ nextStreamId' = tx.nextStreamId
  /\ bal' = tx.bal
  /\ UNCHANGED <<now, auth, _status, pending>>
  /\ UNCHANGED tokenVars

Created(tx, startTime, stopTime, op) ==
  IF tx.err = ErrNone
    THEN [hist EXCEPT ![tx.ret] = [NoHist EXCEPT !.startTime0 = startTime,
                                                  !.stopTime0 = stopTime,
                                                  !.lastOp = op]]
    ELSE hist

\* Time passes between transactions, never inside one.
Tick ==
  /\ pending = NoCall
  /\ now < MaxTime
  /\ now' = now + 1
  /\ UNCHANGED <<streams, nextStreamId, auth, bal, hist, _status, pending>>
  /\ UNCHANGED tokenVars

AuthorizeDelegate(msgSender, delegate, functionSelector) ==
  LET r == authorizeDelegate(msgSender, delegate, functionSelector) IN
  /\ Cardinality(r.auth) <= MaxGrants
  /\ auth' = r.auth
  /\ UNCHANGED <<now, streams, nextStreamId, bal, hist, _status, pending>>
  /\ UNCHANGED tokenVars

RevokeDelegate(msgSender, delegate, functionSelector) ==
  LET r == revokeDelegate(msgSender, delegate, functionSelector) IN
  /\ auth' = r.auth
  /\ UNCHANGED <<now, streams, nextStreamId, bal, hist, _status, pending>>
  /\ UNCHANGED tokenVars

CreateStream(msgSender, recipient, deposit, startTime, stopTime, accept) ==
  LET tx == createStream(msgSender, recipient, deposit, TOKEN, startTime, stopTime, accept) IN
  /\ nextStreamId <= MaxStreams
  /\ Commit(tx)
  /\ hist' = Created(tx, startTime, stopTime, "create")

CreateStreamOnBehalf(msgSender, sender, recipient, deposit, startTime, stopTime, accept) ==
  LET tx == createStreamOnBehalf(msgSender, sender, recipient, deposit, TOKEN,
                                 startTime, stopTime, accept) IN
  /\ nextStreamId <= MaxStreams
  /\ Commit(tx)
  /\ hist' = Created(tx, startTime, stopTime, "createOnBehalf")

WithdrawFromStream(msgSender, streamId, amount, accept) ==
  LET tx == withdrawFromStream(msgSender, streamId, amount, accept) IN
  /\ Commit(tx)
  /\ hist' = Pushed(streamId, tx, "withdraw", hist[streamId].cycle)

WithdrawFromStreamOnBehalf(msgSender, streamId, recipient, amount, accept) ==
  LET tx == withdrawFromStreamOnBehalf(msgSender, streamId, recipient, amount, accept) IN
  /\ Commit(tx)
  /\ hist' = Pushed(streamId, tx, "withdraw", hist[streamId].cycle)

CancelStream(msgSender, streamId, acceptRecipient, acceptSender) ==
  LET tx == cancelStream(msgSender, streamId, acceptRecipient, acceptSender) IN
  /\ Commit(tx)
  /\ hist' = Pushed(streamId, tx, "cancel", hist[streamId].cycle)

CancelStreamOnBehalf(msgSender, streamId, sender, acceptRecipient, acceptSender) ==
  LET tx == cancelStreamOnBehalf(msgSender, streamId, sender, acceptRecipient, acceptSender) IN
  /\ Commit(tx)
  /\ hist' = Pushed(streamId, tx, "cancel", hist[streamId].cycle)

\* cycle: "in" after a first pause at a time inside the creation window,
\* "other" after any other pause.
PauseStream(msgSender, streamId, accept) ==
  LET tx == pauseStream(msgSender, streamId, accept)
      s == streams[streamId]
      cyc == IF hist[streamId].cycle = "none" /\ s.startTime <= now /\ now < s.stopTime
               THEN "in" ELSE "other"
  IN /\ Commit(tx)
     /\ hist' = Pushed(streamId, tx, "pause", cyc)

\* cycle: "in-resumed" after the resume that follows an in-window pause.
ResumeStream(msgSender, streamId) ==
  LET tx == resumeStream(msgSender, streamId)
      h == hist[streamId]
      cyc == IF h.cycle = "in" /\ h.lastOp = "pause" THEN "in-resumed" ELSE "other"
  IN /\ Commit(tx)
     /\ hist' = Pushed(streamId, tx, "resume", cyc)

Amounts == 0..MaxDeposit

Next ==
  \/ Tick
  \/ \E g \in Grantors, d \in Delegates, f \in Selectors : AuthorizeDelegate(g, d, f)
  \/ \E g \in Grantors, d \in Delegates, f \in Selectors : RevokeDelegate(g, d, f)
  \/ \E c \in Users, r \in Recipients, d \in Amounts, t1 \in Times, t2 \in Times,
        ok \in BOOLEAN : CreateStream(c, r, d, t1, t2, ok)
  \/ \E c \in Users, s \in Users, r \in Recipients, d \in Amounts, t1 \in Times,
        t2 \in Times, ok \in BOOLEAN : CreateStreamOnBehalf(c, s, r, d, t1, t2, ok)
  \/ \E c \in Users, i \in StreamIds, a \in Amounts, ok \in BOOLEAN :
       WithdrawFromStream(c, i, a, ok)
  \/ \E c \in Users, i \in StreamIds, r \in Users, a \in Amounts, ok \in BOOLEAN :
       WithdrawFromStreamOnBehalf(c, i, r, a, ok)
  \/ \E c \in Users, i \in StreamIds, ok1 \in BOOLEAN, ok2 \in BOOLEAN :
       CancelStream(c, i, ok1, ok2)
  \/ \E c \in Users, i \in StreamIds, s \in Users, ok1 \in BOOLEAN, ok2 \in BOOLEAN :
       CancelStreamOnBehalf(c, i, s, ok1, ok2)
  \/ \E c \in Users, i \in StreamIds, ok \in BOOLEAN : PauseStream(c, i, ok)
  \/ \E c \in Users, i \in StreamIds : ResumeStream(c, i)

Spec == Init /\ [][Next]_vars

\* ------------------------------------------- second specification: id issue
\* The contract with a create offered for every id of StreamIds, so that a
\* second stream is created next to the first; the other calls are the direct
\* withdraw, cancel and pause.
CreateStreamNext(msgSender, recipient, deposit, startTime, stopTime, accept) ==
  LET tx == createStream(msgSender, recipient, deposit, TOKEN, startTime, stopTime, accept) IN
  /\ nextStreamId \in StreamIds
  /\ Commit(tx)
  /\ hist' = Created(tx, startTime, stopTime, "create")

NextIds ==
  \/ Tick
  \/ \E c \in Users, r \in Recipients, d \in Amounts, t1 \in Times, t2 \in Times,
        ok \in BOOLEAN : CreateStreamNext(c, r, d, t1, t2, ok)
  \/ \E c \in Users, i \in StreamIds, a \in Amounts, ok \in BOOLEAN :
       WithdrawFromStream(c, i, a, ok)
  \/ \E c \in Users, i \in StreamIds, ok1 \in BOOLEAN, ok2 \in BOOLEAN :
       CancelStream(c, i, ok1, ok2)
  \/ \E c \in Users, i \in StreamIds, ok \in BOOLEAN : PauseStream(c, i, ok)

SpecIds == Init /\ [][NextIds]_vars

\* ---------------------------------- third specification: calls into the token
\* A call of the contract into the token (safeTransferFrom, safeTransfer) hands
\* control to the token, which may call the contract back before it returns.
\* Begin* runs a function up to its first call into the token: the storage
\* writes the code makes before that call are in place, the guard is ENTERED
\* and `pending` holds the calls into the token still to be made (the first
\* is in progress), the state to restore if one of them fails, and what the
\* function does after the last one returns.
PortCall(from, to, amount) == [from |-> from, to |-> to, amount |-> amount]

PortCalls(tx, sender, recipient) ==
  (IF tx.pushRecipient > 0 THEN <<PortCall(THIS, recipient, tx.pushRecipient)>> ELSE <<>>)
    \o (IF tx.pushSender > 0 THEN <<PortCall(THIS, sender, tx.pushSender)>> ELSE <<>>)

\* A function whose outcome, if the token accepts every call, is tx enters
\* its first call into the token with storage mid.
Begin(op, tx, mid, calls, rec, hist1) ==
  /\ pending = NoCall
  /\ tx.err = ErrNone
  /\ calls # <<>>
  /\ _status' = ENTERED
  /\ streams' = mid
  /\ pending' = [op |-> op, calls |-> calls, rec |-> rec, hist1 |-> hist1,
                 pre |-> [streams |-> streams, bal |-> bal]]
  /\ UNCHANGED <<now, nextStreamId, auth, bal, hist>>
  /\ UNCHANGED tokenVars

\* _createStream pulls the deposit before it allocates the id and stores the record.
BeginCreateStream(msgSender, recipient, deposit, startTime, stopTime) ==
  LET tx == createStream(msgSender, recipient, deposit, TOKEN, startTime, stopTime, TRUE) IN
  /\ nextStreamId <= MaxStreams
  /\ Begin("create", tx, streams, <<PortCall(msgSender, THIS, deposit)>>,
           tx.streams[tx.ret], Created(tx, startTime, stopTime, "create"))

\* _withdrawFromStream writes remaining and isActive, then pushes.
BeginWithdrawFromStream(msgSender, streamId, amount) ==
  LET tx == withdrawFromStream(msgSender, streamId, amount, TRUE) IN
  Begin("withdraw", tx, tx.streams,
        PortCalls(tx, streams[streamId].sender, streams[streamId].recipient),
        NoStream, Pushed(streamId, tx, "withdraw", hist[streamId].cycle))

\* _cancelStream writes isActive and remaining, then pushes to the recipient
\* and to the sender.
BeginCancelStream(msgSender, streamId) ==
  LET tx == cancelStream(msgSender, streamId, TRUE, TRUE) IN
  Begin("cancel", tx, tx.streams,
        PortCalls(tx, streams[streamId].sender, streams[streamId].recipient),
        NoStream, Pushed(streamId, tx, "cancel", hist[streamId].cycle))

\* pauseStream writes remaining, stopTime and isActive, then pushes.
BeginPauseStream(msgSender, streamId) ==
  LET tx == pauseStream(msgSender, streamId, TRUE)
      s == streams[streamId]
      cyc == IF hist[streamId].cycle = "none" /\ s.startTime <= now /\ now < s.stopTime
               THEN "in" ELSE "other"
  IN Begin("pause", tx, tx.streams, PortCalls(tx, s.sender, s.recipient),
           NoStream, Pushed(streamId, tx, "pause", cyc))

\* The call into the token returns: the tokens have moved. After the last
\* call the function finishes (create stores its record under the next id)
\* and the guard is released.
ReturnFromPort ==
  /\ pending # NoCall
  /\ LET call == Head(pending.calls)
         rest == Tail(pending.calls)
     IN /\ bal[call.from] >= call.amount
        /\ bal' = [bal EXCEPT ![call.from] = @ - call.amount, ![call.to] = @ + call.amount]
        /\ IF rest # <<>>
             THEN /\ pending' = [pending EXCEPT !.calls = rest]
                  /\ UNCHANGED <<streams, nextStreamId, hist, _status>>
             ELSE /\ pending' = NoCall
                  /\ _status' = NOT_ENTERED
                  /\ hist' = pending.hist1
                  /\ IF pending.op = "create"
                       THEN /\ streams' = [streams EXCEPT ![nextStreamId] = pending.rec]
                            /\ nextStreamId' = nextStreamId + 1
                       ELSE UNCHANGED <<streams, nextStreamId>>
  /\ UNCHANGED <<now, auth>>
  /\ UNCHANGED tokenVars

\* The call into the token fails: SafeERC20 reverts and the whole transaction
\* is rolled back.
RevertFromPort ==
  /\ pending # NoCall
  /\ streams' = pending.pre.streams
  /\ bal' = pending.pre.bal
  /\ _status' = NOT_ENTERED
  /\ pending' = NoCall
  /\ UNCHANGED <<now, nextStreamId, auth, hist>>
  /\ UNCHANGED tokenVars

\* The direct functions are called between transactions and, by the token,
\* from inside a call into it.
NextReentry ==
  \/ Tick
  \/ \E c \in Users, r \in Recipients, d \in Amounts, t1 \in Times, t2 \in Times :
       BeginCreateStream(c, r, d, t1, t2)
  \/ \E c \in Users, i \in StreamIds, a \in Amounts : BeginWithdrawFromStream(c, i, a)
  \/ \E c \in Users, i \in StreamIds : BeginCancelStream(c, i)
  \/ \E c \in Users, i \in StreamIds : BeginPauseStream(c, i)
  \/ ReturnFromPort
  \/ RevertFromPort
  \/ \E c \in Users, r \in Recipients, d \in Amounts, t1 \in Times, t2 \in Times,
        ok \in BOOLEAN : CreateStream(c, r, d, t1, t2, ok)
  \/ \E c \in Users, i \in StreamIds, a \in Amounts, ok \in BOOLEAN :
       WithdrawFromStream(c, i, a, ok)
  \/ \E c \in Users, i \in StreamIds, ok1 \in BOOLEAN, ok2 \in BOOLEAN :
       CancelStream(c, i, ok1, ok2)
  \/ \E c \in Users, i \in StreamIds, ok \in BOOLEAN : PauseStream(c, i, ok)
  \/ \E c \in Users, i \in StreamIds : ResumeStream(c, i)

SpecReentry == Init /\ [][NextReentry]_vars

\* --------------------------------------- fourth specification: StreamToken
\* The token on its own: deployed by alice with any initial supply the
\* constructor accepts, then called by any account.
TokenCommit(tx) ==
  /\ _owner' = tx._owner
  /\ _minters' = tx._minters
  /\ _totalSupply' = tx._totalSupply
  /\ _balances' = tx._balances

AddMinter(msgSender, account) ==
  LET tx == addMinter(msgSender, account) IN
  /\ TokenCommit(tx)
  /\ UNCHANGED streamVars

RemoveMinter(msgSender, account) ==
  LET tx == removeMinter(msgSender, account) IN
  /\ TokenCommit(tx)
  /\ UNCHANGED streamVars

TransferOwnership(msgSender, newOwner) ==
  LET tx == transferOwnership(msgSender, newOwner) IN
  /\ TokenCommit(tx)
  /\ UNCHANGED streamVars

RenounceOwnership(msgSender) ==
  LET tx == renounceOwnership(msgSender) IN
  /\ TokenCommit(tx)
  /\ UNCHANGED streamVars

Mint(msgSender, to, amount) ==
  LET tx == mint(msgSender, to, amount) IN
  /\ TokenCommit(tx)
  /\ UNCHANGED streamVars

Faucet(msgSender, amount) ==
  LET tx == faucet(msgSender, amount) IN
  /\ TokenCommit(tx)
  /\ UNCHANGED streamVars

Burn(msgSender, value) ==
  LET tx == burn(msgSender, value) IN
  /\ TokenCommit(tx)
  /\ UNCHANGED streamVars

Transfer(msgSender, to, value) ==
  LET tx == transfer(msgSender, to, value) IN
  /\ TokenCommit(tx)
  /\ UNCHANGED streamVars

InitialSupplies == 0..MAX_SUPPLY
TokenAmounts == 0..(MAX_SUPPLY + 1)
Accounts == Users \cup {ZERO}

InitToken ==
  /\ InitStreamPay
  /\ \E initialSupply \in InitialSupplies : TokenInit("alice", initialSupply)

NextToken ==
  \/ \E c \in Users, a \in Accounts : AddMinter(c, a)
  \/ \E c \in Users, a \in Accounts : RemoveMinter(c, a)
  \/ \E c \in Users, a \in Accounts : TransferOwnership(c, a)
  \/ \E c \in Users : RenounceOwnership(c)
  \/ \E c \in Users, to \in Accounts, a \in TokenAmounts : Mint(c, to, a)
  \/ \E c \in Users, a \in TokenAmounts : Faucet(c, a)
  \/ \E c \in Users, a \in TokenAmounts : Burn(c, a)
  \/ \E c \in Users, to \in Accounts, a \in TokenAmounts : Transfer(c, to, a)

SpecToken == InitToken /\ [][NextToken]_vars

\* ================================================================== claims
Duration0(i) == hist[i].stopTime0 - hist[i].startTime0
Exists(i) == hist[i].lastOp # "none"

\* C1: for every stream, the amounts pushed to its sender and to its recipient
\* plus its current remaining equal its deposit.
C1_ValueConservation ==
  \A i \in StreamIds :
    hist[i].toSender + hist[i].toRecipient + streams[i].remaining = streams[i].deposit

\* C1 witness: a stream that paid its recipient at a pause, was resumed and
\* then cancelled with a refund to its sender.
C1_Witness ==
  \E i \in StreamIds :
    /\ hist[i].lastOp = "cancel"
    /\ hist[i].cycle # "none"
    /\ hist[i].toRecipient > 0
    /\ hist[i].toSender > 0

\* C2: for every active stream and every now >= start the subtraction
\* vested - (deposit - remaining) in withdrawableAmount does not underflow.
C2_WithdrawableNeverNegative ==
  \A i \in StreamIds :
    streams[i].isActive /\ now >= streams[i].startTime
      => withdrawableAmount(streams, i, now) # Panic

\* A stream is terminated once it was cancelled or set inactive by a withdraw.
Terminated(i) ==
  \/ hist[i].lastOp = "cancel"
  \/ hist[i].lastOp = "withdraw" /\ ~streams[i].isActive

\* Every withdraw, cancel, pause and resume call on stream i, by any caller, fails.
AllCallsFail(i) ==
  \A c \in Users, ok1 \in BOOLEAN :
    /\ \A a \in Amounts : withdrawFromStream(c, i, a, ok1).err # ErrNone
    /\ \A a \in Amounts, p \in Users : withdrawFromStreamOnBehalf(c, i, p, a, ok1).err # ErrNone
    /\ \A ok2 \in BOOLEAN : cancelStream(c, i, ok1, ok2).err # ErrNone
    /\ \A ok2 \in BOOLEAN, p \in Users : cancelStreamOnBehalf(c, i, p, ok1, ok2).err # ErrNone
    /\ pauseStream(c, i, ok1).err # ErrNone
    /\ resumeStream(c, i).err # ErrNone

\* C3: once a stream is terminated, every withdraw, cancel, pause and resume
\* call on it fails and no step changes its record again.
C3_TerminatedAbsorbing ==
  [][\A i \in StreamIds :
       Terminated(i) => AllCallsFail(i) /\ streams'[i] = streams[i]]_vars

\* C4: for a stream paused once inside its window and resumed, at the end of
\* the restored window what the recipient was paid plus what is withdrawable
\* equals rate * (original stop - original start).
C4_PauseResumeNoLoss ==
  \A i \in StreamIds :
    hist[i].cycle = "in-resumed" /\ hist[i].lastOp = "resume" /\ now >= streams[i].stopTime
      => LET w == withdrawableAmount(streams, i, now)
         IN /\ w # Panic
            /\ hist[i].toRecipient + w = streams[i].ratePerSecond * Duration0(i)

\* C5: the total pushed to a stream's recipient never exceeds
\* rate * (stop - start) as fixed at creation.
C5_DustNeverToRecipient ==
  \A i \in StreamIds :
    hist[i].toRecipient <= streams[i].ratePerSecond * Duration0(i)

\* A call's outcome leaves the ledger untouched: no record, counter or balance
\* differs from the state the call started in, and nothing was pushed.
Untouched(tx) ==
  /\ tx.streams = streams
  /\ tx.nextStreamId = nextStreamId
  /\ tx.bal = bal
  /\ tx.pushRecipient = 0
  /\ tx.pushSender = 0

Failed(tx) == tx.err # ErrNone

\* C6: a withdraw, pause or cancel call (direct or on behalf) that fails, on a
\* validation or on a push the token declines, leaves the stream records and
\* all balances as they were.
C6_FailureAtomicity ==
  \A c \in Users, i \in StreamIds, ok1 \in BOOLEAN :
    /\ \A a \in Amounts :
         LET tx == withdrawFromStream(c, i, a, ok1) IN Failed(tx) => Untouched(tx)
    /\ \A a \in Amounts, p \in Users :
         LET tx == withdrawFromStreamOnBehalf(c, i, p, a, ok1) IN Failed(tx) => Untouched(tx)
    /\ \A ok2 \in BOOLEAN :
         LET tx == cancelStream(c, i, ok1, ok2) IN Failed(tx) => Untouched(tx)
    /\ \A ok2 \in BOOLEAN, p \in Users :
         LET tx == cancelStreamOnBehalf(c, i, p, ok1, ok2) IN Failed(tx) => Untouched(tx)
    /\ LET tx == pauseStream(c, i, ok1) IN Failed(tx) => Untouched(tx)

\* C6 witness: a stream already paid from once, on which a withdraw and a pause
\* fail on the push to the recipient and a cancel fails on the push to the sender.
C6_Witness ==
  \E i \in StreamIds :
    /\ hist[i].toRecipient > 0
    /\ withdrawFromStream(streams[i].recipient, i, 0, FALSE).err = ErrPushRecipient
    /\ pauseStream(streams[i].sender, i, FALSE).err = ErrPushRecipient
    /\ cancelStream(streams[i].sender, i, TRUE, FALSE).err = ErrPushSender

\* The conditions create validates.
ValidCreate(sender, recipient, deposit, startTime, stopTime) ==
  /\ recipient # ZERO
  /\ recipient # sender
  /\ recipient # THIS
  /\ deposit > 0
  /\ startTime >= now
  /\ stopTime > startTime
  /\ deposit >= stopTime - startTime

\* Create is offered while nextStreamId <= MaxStreams; the claims about create
\* calls range over the calls offered.

\* C7: a create whose pull from the sender fails stores no record, leaves the
\* id counter and every balance as they were; a create that succeeds returns
\* the current counter value.
C7_CreateAllOrNothing ==
  nextStreamId <= MaxStreams =>
  \A c \in Users, r \in Recipients, d \in Amounts, t1 \in Times, t2 \in Times, ok \in BOOLEAN :
    LET tx == createStream(c, r, d, TOKEN, t1, t2, ok)
        pull == safeTransferFrom(bal, c, d, ok)
    IN /\ ~pull.ok => Failed(tx) /\ Untouched(tx)
       /\ ~Failed(tx) => tx.ret = nextStreamId /\ tx.nextStreamId = nextStreamId + 1

\* C7 witness: no stream is stored yet, time has passed, and an otherwise valid
\* create fails on the pull, once because the token declines it and once
\* because the sender's balance is short.
C7_Witness ==
  /\ nextStreamId = 1
  /\ now > 0
  /\ createStream("alice", "bob", 2, TOKEN, now, now + 1, FALSE).err = ErrPull
  /\ createStream("bob", "alice", 2, TOKEN, now, now + 1, TRUE).err = ErrPull

\* C8: create succeeds only on valid arguments, a call with invalid arguments
\* fails and stores nothing, and the record a successful create stores has
\* rate = floor(deposit / (stop - start)) >= 1, remaining = deposit, active.
C8_CreateValidation ==
  /\ nextStreamId <= MaxStreams =>
     \A c \in Users, r \in Recipients, d \in Amounts, t1 \in Times, t2 \in Times, ok \in BOOLEAN :
       LET tx == createStream(c, r, d, TOKEN, t1, t2, ok)
           rec == tx.streams[tx.ret]
       IN /\ ~ValidCreate(c, r, d, t1, t2) => Failed(tx) /\ Untouched(tx)
          /\ ~Failed(tx) =>
               /\ ValidCreate(c, r, d, t1, t2)
               /\ rec.ratePerSecond = d \div (t2 - t1)
               /\ rec.ratePerSecond >= 1
               /\ rec.remaining = d
               /\ rec.deposit = d
               /\ rec.isActive
  /\ \A i \in StreamIds :
       hist[i].lastOp \in {"create", "createOnBehalf"} =>
         /\ streams[i].ratePerSecond = streams[i].deposit \div Duration0(i)
         /\ streams[i].ratePerSecond >= 1
         /\ streams[i].remaining = streams[i].deposit
         /\ streams[i].isActive
         /\ streams[i].recipient \notin {ZERO, THIS, streams[i].sender}
         /\ streams[i].deposit > 0
         /\ streams[i].startTime = hist[i].startTime0
         /\ streams[i].stopTime = hist[i].stopTime0
         /\ streams[i].stopTime > streams[i].startTime
         /\ streams[i].deposit >= Duration0(i)

\* C8 witness: a freshly created stream whose deposit is not a multiple of its duration.
C8_Witness ==
  \E i \in StreamIds :
    /\ hist[i].lastOp = "create"
    /\ streams[i].deposit > streams[i].ratePerSecond * Duration0(i)

\* C9: an on-behalf call succeeds only if the grant (principal, caller, that
\* operation's selector) is true when it is made, and with the grant it
\* succeeds whenever the principal's own direct call would.
C9_OnBehalfNeedsGrant ==
  \A c \in Users, p \in Users :
    /\ nextStreamId <= MaxStreams =>
       \A r \in Recipients, d \in Amounts, t1 \in Times, t2 \in Times, ok \in BOOLEAN :
         LET tx == createStreamOnBehalf(c, p, r, d, TOKEN, t1, t2, ok)
         IN IF isAuthorizedDelegate(auth, p, c, SelCreate)
              THEN tx = createStream(p, r, d, TOKEN, t1, t2, ok)
              ELSE Failed(tx) /\ Untouched(tx)
    /\ \A i \in StreamIds, a \in Amounts, ok \in BOOLEAN :
         LET tx == withdrawFromStreamOnBehalf(c, i, p, a, ok)
             direct == withdrawFromStream(p, i, a, ok)
         IN IF isAuthorizedDelegate(auth, p, c, SelWithdraw)
              THEN ~Failed(direct) => tx = direct
              ELSE Failed(tx) /\ Untouched(tx)
    /\ \A i \in StreamIds, ok1 \in BOOLEAN, ok2 \in BOOLEAN :
         LET tx == cancelStreamOnBehalf(c, i, p, ok1, ok2)
             direct == cancelStream(p, i, ok1, ok2)
         IN IF isAuthorizedDelegate(auth, p, c, SelCancel)
              THEN (~Failed(direct) /\ streams[i].sender = p) => tx = direct
              ELSE Failed(tx) /\ Untouched(tx)

\* C9 witness: a stream was created on behalf of its sender, the grant has
\* since been revoked, and the delegate's create and cancel on behalf of that
\* sender are now refused for the missing grant.
C9_Witness ==
  \E i \in StreamIds :
    /\ hist[i].lastOp = "createOnBehalf"
    /\ auth = {}
    /\ createStreamOnBehalf("carol", streams[i].sender, streams[i].recipient, 1, TOKEN,
                            now, now + 1, TRUE).err = ErrNotAuthCreate
    /\ cancelStreamOnBehalf("carol", i, streams[i].sender, TRUE, TRUE).err = ErrNotAuthCancel

\* Every on-behalf call for selector f by d in the name of g fails.
OnBehalfFails(f, d, g) ==
  CASE f = SelCreate ->
         (nextStreamId <= MaxStreams =>
            (\A r \in Recipients, a \in Amounts, t1 \in Times, t2 \in Times, ok \in BOOLEAN :
               createStreamOnBehalf(d, g, r, a, TOKEN, t1, t2, ok).err = ErrNotAuthCreate))
    [] f = SelWithdraw ->
         (\A i \in StreamIds, a \in Amounts, ok \in BOOLEAN :
            Failed(withdrawFromStreamOnBehalf(d, i, g, a, ok)))
    [] f = SelCancel ->
         (\A i \in StreamIds, ok1 \in BOOLEAN, ok2 \in BOOLEAN :
            Failed(cancelStreamOnBehalf(d, i, g, ok1, ok2)))

\* C10: a grant (g, d, A) never lets d perform another on-behalf operation B
\* for g: while (g, d, B) is not granted every such call fails.
C10_NoPrivilegeConfusion ==
  \A g \in Users, d \in Users, A \in Selectors, B \in Selectors :
    A # B /\ <<g, d, A>> \in auth /\ <<g, d, B>> \notin auth => OnBehalfFails(B, d, g)

\* C10 witness: carol holds only the sender's grant for createStreamOnBehalf
\* while the sender's stream is active and has accrued; carol's cancel on
\* behalf of the sender is refused for the missing grant.
C10_Witness ==
  \E i \in StreamIds :
    /\ auth = {<<streams[i].sender, "carol", SelCreate>>}
    /\ streams[i].isActive
    /\ withdrawableAmount(streams, i, now) > 0
    /\ cancelStreamOnBehalf("carol", i, streams[i].sender, TRUE, TRUE).err = ErrNotAuthCancel

\* The only balances a call changed: amount left the contract and reached r.
PaidTo(tx, r, amount) ==
  tx.bal = [bal EXCEPT ![THIS] = @ - amount, ![r] = @ + amount]

\* C11: a withdrawal succeeds only for the stream's recipient calling directly
\* or for a caller holding the grant (recipient, caller, withdrawFromStreamOnBehalf)
\* and naming that recipient; every successful withdrawal pays the stream's
\* recipient and nobody else.
C11_WithdrawAuthorization ==
  \A c \in Users, i \in StreamIds, a \in Amounts, ok \in BOOLEAN :
    /\ LET tx == withdrawFromStream(c, i, a, ok)
       IN ~Failed(tx) =>
            /\ c = streams[i].recipient
            /\ tx.pushRecipient > 0
            /\ PaidTo(tx, streams[i].recipient, tx.pushRecipient)
    /\ \A p \in Users :
         LET tx == withdrawFromStreamOnBehalf(c, i, p, a, ok)
         IN ~Failed(tx) =>
              /\ p = streams[i].recipient
              /\ isAuthorizedDelegate(auth, streams[i].recipient, c, SelWithdraw)
              /\ tx.pushRecipient > 0
              /\ PaidTo(tx, streams[i].recipient, tx.pushRecipient)

\* C11 witness: an active stream already withdrawn from, with an amount
\* accrued; carol holds the recipient's withdraw grant and her on-behalf call
\* succeeds, while the direct calls of the sender and of carol are refused.
C11_Witness ==
  \E i \in StreamIds :
    /\ hist[i].lastOp = "withdraw"
    /\ streams[i].isActive
    /\ withdrawableAmount(streams, i, now) > 0
    /\ auth = {<<streams[i].recipient, "carol", SelWithdraw>>}
    /\ ~Failed(withdrawFromStreamOnBehalf("carol", i, streams[i].recipient, 0, TRUE))
    /\ withdrawFromStream(streams[i].sender, i, 0, TRUE).err = ErrNotRecipient
    /\ withdrawFromStream("carol", i, 0, TRUE).err = ErrNotRecipient

\* C12: a cancel succeeds only on an active stream and only for its sender or
\* its recipient calling directly, or for a caller that names the stream's
\* sender and holds the grant (sender, caller, cancelStreamOnBehalf); a grant
\* given by the recipient, or a call naming anybody but the sender, cancels nothing.
C12_CancelAuthorization ==
  \A c \in Users, i \in StreamIds, ok1 \in BOOLEAN, ok2 \in BOOLEAN :
    /\ LET tx == cancelStream(c, i, ok1, ok2)
       IN ~Failed(tx) =>
            /\ streams[i].isActive
            /\ c \in {streams[i].sender, streams[i].recipient}
    /\ \A p \in Users :
         LET tx == cancelStreamOnBehalf(c, i, p, ok1, ok2)
         IN /\ ~Failed(tx) =>
                 /\ streams[i].isActive
                 /\ p = streams[i].sender
                 /\ isAuthorizedDelegate(auth, streams[i].sender, c, SelCancel)
            /\ p # streams[i].sender => Failed(tx) /\ Untouched(tx)

\* C12 witness: an active stream whose recipient gave carol the cancel grant:
\* carol's cancel in the recipient's name and in the sender's name are both
\* refused, while the sender's own cancel succeeds.
C12_Witness ==
  \E i \in StreamIds :
    /\ streams[i].isActive
    /\ auth = {<<streams[i].recipient, "carol", SelCancel>>}
    /\ cancelStreamOnBehalf("carol", i, streams[i].recipient, TRUE, TRUE).err = ErrSenderMismatch
    /\ cancelStreamOnBehalf("carol", i, streams[i].sender, TRUE, TRUE).err = ErrNotAuthCancel
    /\ ~Failed(cancelStream(streams[i].sender, i, TRUE, TRUE))

\* C13: a pause succeeds only on an active stream and only for a caller that
\* is the stream's sender or recipient, whatever grants exist; a pause that
\* fails changes no record and no balance.
C13_PauseAuthorization ==
  \A c \in Users, i \in StreamIds, ok \in BOOLEAN :
    LET tx == pauseStream(c, i, ok)
    IN /\ ~Failed(tx) =>
            /\ streams[i].isActive
            /\ c \in {streams[i].sender, streams[i].recipient}
       /\ Failed(tx) => Untouched(tx)

\* C13 witness: a stream paused and resumed before, active again; carol holds
\* the sender's cancel grant and her pause is refused as a non-party, while the
\* recipient's pause succeeds.
C13_Witness ==
  \E i \in StreamIds :
    /\ hist[i].lastOp = "resume"
    /\ streams[i].isActive
    /\ auth = {<<streams[i].sender, "carol", SelCancel>>}
    /\ pauseStream("carol", i, TRUE).err = ErrNotParty
    /\ ~Failed(pauseStream(streams[i].recipient, i, TRUE))

\* C14: a resume succeeds only on a stream whose last successful operation was
\* a pause, only for the stream's sender and only with remaining > 0; a resume
\* that fails changes nothing.
C14_ResumePrecondition ==
  \A c \in Users, i \in StreamIds :
    LET tx == resumeStream(c, i)
    IN /\ ~Failed(tx) =>
            /\ hist[i].lastOp = "pause"
            /\ c = streams[i].sender
            /\ streams[i].remaining > 0
       /\ Failed(tx) => Untouched(tx)

\* A stream is paused while its last successful operation is a pause.
Paused(i) == hist[i].lastOp = "pause"

\* C15: while a stream is paused every withdraw, cancel and pause call on it,
\* direct or on behalf and by any caller, fails and changes nothing, and so
\* does every resume by a caller other than its sender.
C15_PausedOnlySenderResumes ==
  \A i \in StreamIds :
    Paused(i) =>
      \A c \in Users, ok1 \in BOOLEAN :
        /\ \A a \in Amounts :
             LET tx == withdrawFromStream(c, i, a, ok1) IN Failed(tx) /\ Untouched(tx)
        /\ \A a \in Amounts, p \in Users :
             LET tx == withdrawFromStreamOnBehalf(c, i, p, a, ok1) IN Failed(tx) /\ Untouched(tx)
        /\ \A ok2 \in BOOLEAN :
             LET tx == cancelStream(c, i, ok1, ok2) IN Failed(tx) /\ Untouched(tx)
        /\ \A ok2 \in BOOLEAN, p \in Users :
             LET tx == cancelStreamOnBehalf(c, i, p, ok1, ok2) IN Failed(tx) /\ Untouched(tx)
        /\ LET tx == pauseStream(c, i, ok1) IN Failed(tx) /\ Untouched(tx)
        /\ c # streams[i].sender =>
             LET tx == resumeStream(c, i) IN Failed(tx) /\ Untouched(tx)

\* C15 witness: a paused stream that still holds funds and has paid its
\* recipient, who gave carol the withdraw grant: the recipient's and carol's
\* withdraws and the recipient's resume are refused, the sender's resume succeeds.
C15_Witness ==
  \E i \in StreamIds :
    /\ Paused(i)
    /\ streams[i].remaining > 0
    /\ hist[i].toRecipient > 0
    /\ auth = {<<streams[i].recipient, "carol", SelWithdraw>>}
    /\ withdrawFromStream(streams[i].recipient, i, 0, TRUE).err = ErrNotActive
    /\ withdrawFromStreamOnBehalf("carol", i, streams[i].recipient, 0, TRUE).err = ErrNotActive
    /\ resumeStream(streams[i].recipient, i).err = ErrOnlySender
    /\ ~Failed(resumeStream(streams[i].sender, i))

\* C16: every stream has 0 <= remaining <= deposit; no withdraw, cancel, pause
\* or resume call leaves a stream's remaining larger than it found it; and the
\* amount withdraw or pause takes off remaining never exceeds it, so the only
\* arithmetic failure of these calls is the one of withdrawableAmount.
C16_RemainingBounded ==
  \A i \in StreamIds :
    /\ 0 <= streams[i].remaining
    /\ streams[i].remaining <= streams[i].deposit
    /\ LET w == withdrawableAmount(streams, i, now)
       IN w # Panic => w <= streams[i].remaining
    /\ \A c \in Users, ok1 \in BOOLEAN :
         /\ \A a \in Amounts :
              LET tx == withdrawFromStream(c, i, a, ok1)
              IN /\ tx.streams[i].remaining <= streams[i].remaining
                 /\ tx.streams[i].remaining >= 0
                 /\ tx.err = ErrPanic => withdrawableAmount(streams, i, now) = Panic
         /\ \A ok2 \in BOOLEAN :
              cancelStream(c, i, ok1, ok2).streams[i].remaining <= streams[i].remaining
         /\ LET tx == pauseStream(c, i, ok1)
            IN /\ tx.streams[i].remaining <= streams[i].remaining
               /\ tx.streams[i].remaining >= 0
               /\ tx.err = ErrPanic => withdrawableAmount(streams, i, now) = Panic
         /\ resumeStream(c, i).streams[i].remaining <= streams[i].remaining

\* C16 witness: a resumed, active stream with 0 < remaining < deposit from
\* which a further amount can be withdrawn.
C16_Witness ==
  \E i \in StreamIds :
    /\ hist[i].lastOp = "resume"
    /\ streams[i].isActive
    /\ 0 < streams[i].remaining
    /\ streams[i].remaining < streams[i].deposit
    /\ withdrawableAmount(streams, i, now) > 0
    /\ ~Failed(withdrawFromStream(streams[i].recipient, i, 1, TRUE))

\* C17: once a stream is created no step changes its deposit, rate, sender,
\* recipient or token.
C17_TermsImmutable ==
  [][\A i \in StreamIds :
       hist[i].lastOp # "none" =>
         /\ streams'[i].deposit = streams[i].deposit
         /\ streams'[i].ratePerSecond = streams[i].ratePerSecond
         /\ streams'[i].sender = streams[i].sender
         /\ streams'[i].recipient = streams[i].recipient
         /\ streams'[i].tokenAddress = streams[i].tokenAddress]_vars

\* C17 witness: a stream of the largest deposit that went through a pause
\* inside its window, a resume and a cancel while a grant was in place, and
\* still carries the sender, token, deposit and rate fixed at its creation.
C17_Witness ==
  \E i \in StreamIds :
    /\ hist[i].lastOp = "cancel"
    /\ hist[i].cycle = "in-resumed"
    /\ auth # {}
    /\ streams[i].sender = "alice"
    /\ streams[i].tokenAddress = TOKEN
    /\ streams[i].deposit = MaxDeposit
    /\ streams[i].ratePerSecond = MaxDeposit \div Duration0(i)

\* C18: every active stream has stopTime > startTime.
C18_ActiveWindowNonEmpty ==
  \A i \in StreamIds :
    streams[i].isActive => streams[i].stopTime > streams[i].startTime

\* The ids of the streams created so far.
IssuedIds == {i \in StreamIds : hist[i].lastOp # "none"}

\* C19: the ids issued so far are exactly 1 .. nextStreamId - 1 and no record
\* is stored under a later id; a create that fails leaves the counter and the
\* records as they were; a create that succeeds returns the counter's value,
\* advances the counter by one, writes a slot that held no record and leaves
\* every other record as it was.
C19_IdsSequential ==
  /\ IssuedIds = 1..(nextStreamId - 1)
  /\ \A i \in StreamIds : i >= nextStreamId => streams[i] = NoStream
  /\ nextStreamId \in StreamIds =>
     \A c \in Users, r \in Recipients, d \in Amounts, t1 \in Times, t2 \in Times, ok \in BOOLEAN :
       LET tx == createStream(c, r, d, TOKEN, t1, t2, ok)
       IN IF Failed(tx)
            THEN tx.nextStreamId = nextStreamId /\ tx.streams = streams
            ELSE /\ tx.ret = nextStreamId
                 /\ tx.nextStreamId = nextStreamId + 1
                 /\ streams[tx.ret] = NoStream
                 /\ tx.streams[tx.ret] # NoStream
                 /\ \A j \in StreamIds \ {tx.ret} : tx.streams[j] = streams[j]

\* C19 witness: two streams were created, the first has since been cancelled,
\* the second is stored under id 2 and the counter stands at 3.
C19_Witness ==
  /\ nextStreamId = 3
  /\ hist[1].lastOp = "cancel"
  /\ hist[2].lastOp = "create"
  /\ streams[2].isActive
  /\ now > 0

\* C20: on an active stream with w = withdrawableAmount now, the recipient's
\* withdraw fails if w = 0 and if amount > w; with the token accepting the
\* push, amount = 0 pays exactly w and 0 < amount <= w pays exactly amount;
\* every successful withdraw takes off remaining exactly what it pushed to
\* the recipient.
C20_WithdrawAmount ==
  \A i \in StreamIds, a \in Amounts, ok \in BOOLEAN :
    streams[i].isActive =>
      LET r == streams[i].recipient
          w == withdrawableAmount(streams, i, now)
          tx == withdrawFromStream(r, i, a, ok)
      IN /\ w = 0 => tx.err = ErrNothing
         /\ w = Panic => tx.err = ErrPanic
         /\ w > 0 /\ a > w => tx.err = ErrExceeds
         /\ w > 0 /\ a = 0 /\ ok => ~Failed(tx) /\ tx.pushRecipient = w
         /\ w > 0 /\ 0 < a /\ a <= w /\ ok => ~Failed(tx) /\ tx.pushRecipient = a
         /\ ~Failed(tx) =>
              /\ tx.streams[i].remaining = streams[i].remaining - tx.pushRecipient
              /\ PaidTo(tx, r, tx.pushRecipient)

\* C20 witness: an active stream withdrawn from before, with w = 2 now: an
\* amount of 3 is refused, an amount of 1 is paid as asked and an amount of 0
\* pays 2.
C20_Witness ==
  \E i \in StreamIds :
    /\ hist[i].lastOp = "withdraw"
    /\ streams[i].isActive
    /\ withdrawableAmount(streams, i, now) = 2
    /\ withdrawFromStream(streams[i].recipient, i, 3, TRUE).err = ErrExceeds
    /\ withdrawFromStream(streams[i].recipient, i, 1, TRUE).pushRecipient = 1
    /\ withdrawFromStream(streams[i].recipient, i, 0, TRUE).pushRecipient = 2

\* The step is a successful withdraw on stream i of everything withdrawable.
WithdrewAll(i) ==
  LET w == withdrawableAmount(streams, i, now)
  IN /\ streams[i].isActive
     /\ w # Panic
     /\ w > 0
     /\ hist'[i].lastOp = "withdraw"
     /\ hist'[i].toRecipient = hist[i].toRecipient + w
     /\ now' = now

\* C21 as claimed: right after a successful withdraw of everything withdrawable,
\* every withdraw of the recipient at the same time fails with "Nothing to
\* withdraw" and changes nothing.
C21_WithdrawTwice ==
  [][\A i \in StreamIds :
       WithdrewAll(i) =>
         \A a \in Amounts, ok \in BOOLEAN :
           (LET tx == withdrawFromStream(streams[i].recipient, i, a, ok)
            IN tx.err = ErrNothing /\ Untouched(tx))']_vars

\* C21 as amended: right after a successful withdraw of everything
\* withdrawable, every withdraw of the recipient at the same time fails and
\* changes nothing: with "Nothing to withdraw" while the stream is still
\* active, with "Stream is not active" once that withdraw has set it inactive.
C21_WithdrawTwiceAmended ==
  [][\A i \in StreamIds :
       WithdrewAll(i) =>
         \A a \in Amounts, ok \in BOOLEAN :
           (LET tx == withdrawFromStream(streams[i].recipient, i, a, ok)
            IN /\ tx.err = IF streams[i].isActive THEN ErrNothing ELSE ErrNotActive
               /\ Untouched(tx))']_vars

\* C21 witness: a stream whose last withdraw set it inactive with a rest left
\* in remaining; the recipient's next withdraw is refused as not active.
C21_Witness ==
  \E i \in StreamIds :
    /\ hist[i].lastOp = "withdraw"
    /\ ~streams[i].isActive
    /\ streams[i].remaining > 0
    /\ hist[i].toRecipient > 0
    /\ withdrawFromStream(streams[i].recipient, i, 0, TRUE).err = ErrNotActive

\* The step is a successful withdraw, direct or on behalf, on stream i.
WithdrewFrom(i) ==
  /\ hist'[i].lastOp = "withdraw"
  /\ hist'[i].toRecipient > hist[i].toRecipient

\* C22: a successful withdraw on stream i changes, of all records, only the
\* remaining and the active flag of stream i (so neither its start, stop or
\* rate nor another record), takes remaining down, and changes no grant and
\* not the id counter.
C22_WithdrawFrame ==
  [][\A i \in StreamIds :
       WithdrewFrom(i) =>
         /\ streams' = [streams EXCEPT ![i].remaining = streams'[i].remaining,
                                       ![i].isActive = streams'[i].isActive]
         /\ streams'[i].remaining < streams[i].remaining
         /\ auth' = auth
         /\ nextStreamId' = nextStreamId]_vars

\* C22 witness: a stream withdrawn from while a grant is in place, still
\* active, with the window it was created with.
C22_Witness ==
  \E i \in StreamIds :
    /\ hist[i].lastOp = "withdraw"
    /\ hist[i].cycle = "none"
    /\ auth # {}
    /\ streams[i].isActive
    /\ streams[i].remaining < streams[i].deposit
    /\ streams[i].startTime = hist[i].startTime0
    /\ streams[i].stopTime = hist[i].stopTime0

\* C23: on an active stream never paid from, at a time now <= startTime, the
\* cancel of the sender or of the recipient succeeds whenever the token accepts
\* the push to the sender; it pushes the whole deposit to the sender and
\* nothing to the recipient, and leaves remaining = 0 and the stream inactive.
C23_CancelBeforeStart ==
  \A i \in StreamIds, ok1 \in BOOLEAN :
    streams[i].isActive /\ now <= streams[i].startTime
                        /\ streams[i].remaining = streams[i].deposit =>
      \A c \in {streams[i].sender, streams[i].recipient} :
        LET tx == cancelStream(c, i, ok1, TRUE)
        IN /\ ~Failed(tx)
           /\ tx.pushSender = streams[i].deposit
           /\ tx.pushRecipient = 0
           /\ PaidTo(tx, streams[i].sender, streams[i].deposit)
           /\ tx.streams[i].remaining = 0
           /\ ~tx.streams[i].isActive

\* C23 witness: a stream cancelled at a time not after its start, whose whole
\* deposit went back to the sender.
C23_Witness ==
  \E i \in StreamIds :
    /\ hist[i].lastOp = "cancel"
    /\ now <= streams[i].startTime
    /\ streams[i].deposit > 1
    /\ hist[i].toSender = streams[i].deposit
    /\ hist[i].toRecipient = 0
    /\ bal[streams[i].sender] = InitBal

\* C24: a successful cancel of a stream with withdrawable amount w pushes
\* recipientAmount = (now > startTime ? w : 0) to the recipient and
\* remaining - recipientAmount to the sender, and leaves remaining = 0 and the
\* stream inactive.
C24_CancelSplit ==
  \A i \in StreamIds, c \in Users, ok1 \in BOOLEAN, ok2 \in BOOLEAN :
    LET w == withdrawableAmount(streams, i, now)
        recipientAmount == IF now > streams[i].startTime THEN w ELSE 0
        tx == cancelStream(c, i, ok1, ok2)
    IN ~Failed(tx) /\ w # Panic =>
         /\ tx.pushRecipient = recipientAmount
         /\ tx.pushSender = streams[i].remaining - recipientAmount
         /\ tx.pushRecipient + tx.pushSender = streams[i].remaining
         /\ tx.streams[i].remaining = 0
         /\ ~tx.streams[i].isActive

\* C25: no withdraw (direct or on behalf), pause or resume call on a stream
\* pushes anything to that stream's sender: the sender's balance after the
\* call is the one before it; the total a stream pushed to its sender is 0
\* until the stream is cancelled.
C25_OnlyCancelPaysSender ==
  \A i \in StreamIds :
    hist[i].lastOp # "none" =>
      LET s == streams[i].sender IN
      /\ hist[i].toSender > 0 => hist[i].lastOp = "cancel"
      /\ \A c \in Users, ok \in BOOLEAN :
           /\ \A a \in Amounts :
                LET tx == withdrawFromStream(c, i, a, ok)
                IN tx.bal[s] = bal[s] /\ tx.pushSender = 0
           /\ \A a \in Amounts, p \in Users :
                LET tx == withdrawFromStreamOnBehalf(c, i, p, a, ok)
                IN tx.bal[s] = bal[s] /\ tx.pushSender = 0
           /\ LET tx == pauseStream(c, i, ok)
              IN tx.bal[s] = bal[s] /\ tx.pushSender = 0
           /\ LET tx == resumeStream(c, i)
              IN tx.bal[s] = bal[s] /\ tx.pushSender = 0

\* C25 witness: a stream that paid its recipient more than one unit and was
\* paused and resumed; its sender holds what was left after the deposit was pulled.
C25_Witness ==
  \E i \in StreamIds :
    /\ hist[i].lastOp = "resume"
    /\ hist[i].toRecipient > 1
    /\ hist[i].toSender = 0
    /\ bal[streams[i].sender] = InitBal - streams[i].deposit

\* The addresses a caller may name as a delegate.
DelegateArgs == Users \cup {ZERO}

\* C26: a grant naming the zero address fails and leaves every grant as it
\* was; any other grant succeeds and sets exactly its triple (g, d, a); a
\* grant of a triple that is already set leaves the grants as they are.
C26_GrantIdempotent ==
  \A g \in Users, d \in DelegateArgs, f \in Selectors :
    LET r == authorizeDelegate(g, d, f)
    IN IF d = ZERO
         THEN r.err = ErrDelegateZero /\ r.auth = auth
         ELSE /\ r.err = ErrNone
              /\ isAuthorizedDelegate(r.auth, g, d, f)
              /\ r.auth = auth \cup {<<g, d, f>>}
              /\ isAuthorizedDelegate(auth, g, d, f) => r.auth = auth

\* C26 witness: alice's withdraw grant to carol is set; granting it again
\* leaves the grants as they are and a grant to the zero address is refused.
C26_Witness ==
  /\ auth = {<<"alice", "carol", SelWithdraw>>}
  /\ now > 0
  /\ authorizeDelegate("alice", "carol", SelWithdraw).auth = auth
  /\ authorizeDelegate("alice", ZERO, SelWithdraw).err = ErrDelegateZero

\* What a revoke answers, for every caller and every triple: it never fails,
\* clears its triple, and changes nothing if the triple was not set.
RevokeNeverFails ==
  \A g \in Users, d \in DelegateArgs, f \in Selectors :
    LET r == revokeDelegate(g, d, f)
    IN /\ r.err = ErrNone
       /\ ~isAuthorizedDelegate(r.auth, g, d, f)
       /\ ~isAuthorizedDelegate(auth, g, d, f) => r.auth = auth

\* C27: no triple is authorized at the start; a triple becomes authorized only
\* in a step that is a successful grant of that triple and stops being
\* authorized only in a step that is the revoke of that triple; a revoke never
\* fails and leaves a triple that was not set unset.
C27_LastWriterWins ==
  /\ auth = {}
  /\ []RevokeNeverFails
  /\ [][/\ \A t \in auth' \ auth :
             LET r == authorizeDelegate(t[1], t[2], t[3])
             IN r.err = ErrNone /\ auth' = r.auth
        /\ \A t \in auth \ auth' :
             auth' = revokeDelegate(t[1], t[2], t[3]).auth]_vars

\* C27 witness: a stream was created on behalf of its sender, so carol held
\* the sender's create grant; it has been revoked since, the triple reads
\* false, and revoking it once more succeeds and changes nothing.
C27_Witness ==
  \E i \in StreamIds :
    /\ hist[i].lastOp = "createOnBehalf"
    /\ ~isAuthorizedDelegate(auth, streams[i].sender, "carol", SelCreate)
    /\ revokeDelegate(streams[i].sender, "carol", SelCreate).err = ErrNone
    /\ revokeDelegate(streams[i].sender, "carol", SelCreate).auth = auth

\* What a grant or a revoke by c can change: at most the triple it names,
\* whose grantor is c.
OwnTripleOnly ==
  \A c \in Users, d \in DelegateArgs, f \in Selectors :
    /\ authorizeDelegate(c, d, f).auth \ {<<c, d, f>>} = auth \ {<<c, d, f>>}
    /\ revokeDelegate(c, d, f).auth \ {<<c, d, f>>} = auth \ {<<c, d, f>>}

\* C28: a grant or revoke call by c changes at most the triple (c, delegate,
\* action) it names, and a step that changes a stream record, the id counter
\* or a balance changes no grant.
C28_OnlyGrantorToggles ==
  /\ []OwnTripleOnly
  /\ [][<<streams, nextStreamId, bal, hist>>' # <<streams, nextStreamId, bal, hist>>
          => auth' = auth]_vars

\* C28 witness: bob, the recipient of a stream that alice created and
\* cancelled, has given carol a grant; alice's grant call would add her own
\* triple only.
C28_Witness ==
  \E i \in StreamIds, f \in Selectors :
    /\ hist[i].lastOp = "cancel"
    /\ streams[i].sender = "alice"
    /\ auth = {<<"bob", "carol", f>>}
    /\ authorizeDelegate("alice", "carol", f).auth = {<<"bob", "carol", f>>, <<"alice", "carol", f>>}

\* What a call on stream i answers: its error, the record of i it leaves and
\* the amounts it pushes.
Outcome(tx, i) == <<tx.err, tx.streams[i], tx.pushRecipient, tx.pushSender>>

\* Every withdraw, cancel, pause and resume call addressed to stream i leaves
\* the record of every other stream as it is.
OtherRecordsKept ==
  \A i \in StreamIds, c \in Users, ok1 \in BOOLEAN :
    \A j \in StreamIds \ {i} :
      /\ \A a \in Amounts : withdrawFromStream(c, i, a, ok1).streams[j] = streams[j]
      /\ \A ok2 \in BOOLEAN : cancelStream(c, i, ok1, ok2).streams[j] = streams[j]
      /\ pauseStream(c, i, ok1).streams[j] = streams[j]
      /\ resumeStream(c, i).streams[j] = streams[j]

\* C30: a call addressed to stream i, successful or not, leaves the record of
\* every other stream unchanged; and a step that changes another stream's
\* record (at the same time, leaving the record of i alone) changes the
\* outcome of no withdraw, cancel, pause or resume call on i.
C30_StreamsIndependent ==
  /\ []OtherRecordsKept
  /\ [][\A i \in StreamIds :
          streams' # streams /\ streams'[i] = streams[i] /\ hist[i].lastOp # "none" =>
            \A c \in {streams[i].sender, streams[i].recipient}, ok1 \in BOOLEAN :
              /\ \A a \in Amounts :
                   Outcome(withdrawFromStream(c, i, a, ok1), i)'
                     = Outcome(withdrawFromStream(c, i, a, ok1), i)
              /\ \A ok2 \in BOOLEAN :
                   Outcome(cancelStream(c, i, ok1, ok2), i)'
                     = Outcome(cancelStream(c, i, ok1, ok2), i)
              /\ Outcome(pauseStream(c, i, ok1), i)' = Outcome(pauseStream(c, i, ok1), i)
              /\ Outcome(resumeStream(c, i), i)' = Outcome(resumeStream(c, i), i)]_vars

\* C30 witness: two streams are stored; the first is paused with funds left,
\* the second has been withdrawn from, is active and has an amount accrued.
C30_Witness ==
  /\ hist[1].lastOp = "pause"
  /\ streams[1].remaining > 0
  /\ hist[2].lastOp = "withdraw"
  /\ streams[2].isActive
  /\ withdrawableAmount(streams, 2, now) > 0

\* A function is inside a call into the token.
InPortCall == pending # NoCall

\* Every call of a guarded function, by any caller with any arguments, fails
\* on the guard and changes nothing.
AllReentrantCallsFail ==
  /\ \A c \in Users, r \in Recipients, d \in Amounts, t1 \in Times, t2 \in Times, ok \in BOOLEAN :
       /\ LET tx == createStream(c, r, d, TOKEN, t1, t2, ok)
          IN tx.err = ErrReentrant /\ Untouched(tx)
       /\ \A p \in Users :
            LET tx == createStreamOnBehalf(c, p, r, d, TOKEN, t1, t2, ok)
            IN tx.err = ErrReentrant /\ Untouched(tx)
  /\ \A c \in Users, i \in StreamIds, ok1 \in BOOLEAN :
       /\ \A a \in Amounts :
            LET tx == withdrawFromStream(c, i, a, ok1)
            IN tx.err = ErrReentrant /\ Untouched(tx)
       /\ \A a \in Amounts, p \in Users :
            LET tx == withdrawFromStreamOnBehalf(c, i, p, a, ok1)
            IN tx.err = ErrReentrant /\ Untouched(tx)
       /\ \A ok2 \in BOOLEAN :
            LET tx == cancelStream(c, i, ok1, ok2)
            IN tx.err = ErrReentrant /\ Untouched(tx)
       /\ \A ok2 \in BOOLEAN, p \in Users :
            LET tx == cancelStreamOnBehalf(c, i, p, ok1, ok2)
            IN tx.err = ErrReentrant /\ Untouched(tx)
       /\ LET tx == pauseStream(c, i, ok1) IN tx.err = ErrReentrant /\ Untouched(tx)
       /\ LET tx == resumeStream(c, i) IN tx.err = ErrReentrant /\ Untouched(tx)

\* C29: while a create, withdraw, cancel or pause is inside a call into the
\* token the guard is ENTERED and every call of createStream,
\* createStreamOnBehalf, withdrawFromStream, withdrawFromStreamOnBehalf,
\* cancelStream, cancelStreamOnBehalf, pauseStream and resumeStream fails and
\* changes nothing; between transactions the guard is released and what each
\* stream pushed plus what it still holds is its deposit.
C29_Serialized ==
  /\ InPortCall <=> _status = ENTERED
  /\ InPortCall => AllReentrantCallsFail
  /\ ~InPortCall =>
       \A i \in StreamIds :
         hist[i].toSender + hist[i].toRecipient + streams[i].remaining = streams[i].deposit

\* C29 witness: a pause is inside its push to the recipient: the record is
\* already inactive with the amount taken off remaining, the tokens have not
\* moved yet, and the sender's resume is refused by the guard.
C29_Witness ==
  \E i \in StreamIds :
    /\ pending # NoCall
    /\ pending.op = "pause"
    /\ ~streams[i].isActive
    /\ streams[i].remaining > 0
    /\ hist[i].toRecipient + streams[i].remaining < streams[i].deposit
    /\ resumeStream(streams[i].sender, i).err = ErrReentrant

\* The stream was created and neither paused nor resumed since.
NeverPaused(i) == Exists(i) /\ hist[i].cycle = "none"

\* C31: on an active, never-paused stream with a token that accepts the push,
\* the recipient's withdraw(0) at a time now >= stop succeeds, pays
\* rate * (stop - start) minus what was already paid, leaves
\* remaining = deposit - rate * (stop - start) and sets the stream inactive;
\* at a time start <= now < stop the withdrawable amount is
\* (now - start) * rate minus what was already paid and, when positive, is
\* what withdraw(0) pays.
C31_NaturalDrain ==
  \A i \in StreamIds :
    streams[i].isActive /\ NeverPaused(i) =>
      LET s == streams[i]
          paid == hist[i].toRecipient
          tx == withdrawFromStream(s.recipient, i, 0, TRUE)
      IN /\ now >= s.stopTime =>
              /\ ~Failed(tx)
              /\ tx.pushRecipient = s.ratePerSecond * (s.stopTime - s.startTime) - paid
              /\ PaidTo(tx, s.recipient, tx.pushRecipient)
              /\ tx.streams[i].remaining
                   = s.deposit - s.ratePerSecond * (s.stopTime - s.startTime)
              /\ ~tx.streams[i].isActive
         /\ s.startTime <= now /\ now < s.stopTime =>
              LET w == (now - s.startTime) * s.ratePerSecond - paid
              IN /\ withdrawableAmount(streams, i, now) = w
                 /\ w > 0 => ~Failed(tx) /\ tx.pushRecipient = w
                             /\ tx.streams[i].remaining = s.remaining - w

\* C31 witness: a never-paused stream of deposit 3 over 2 seconds (rate 1)
\* drained after its stop: 2 were paid, the dust of 1 stays in remaining and
\* the stream is inactive.
C31_Witness ==
  \E i \in StreamIds :
    /\ NeverPaused(i)
    /\ hist[i].lastOp = "withdraw"
    /\ now > streams[i].stopTime
    /\ streams[i].deposit = 3
    /\ streams[i].ratePerSecond = 1
    /\ hist[i].toRecipient = 2
    /\ streams[i].remaining = 1
    /\ ~streams[i].isActive

\* C32: a successful withdraw (direct or on behalf) leaves the stream inactive
\* exactly when now >= stop or remaining is 0 after the decrement, and active
\* otherwise; a withdraw that fails, in particular on the push to the
\* recipient, leaves the active flag as it was.
C32_WithdrawTransition ==
  \A i \in StreamIds, c \in Users, a \in Amounts, ok \in BOOLEAN :
    LET Transition(tx) ==
          /\ ~Failed(tx) =>
               (~tx.streams[i].isActive
                  <=> (now >= streams[i].stopTime \/ tx.streams[i].remaining = 0))
          /\ Failed(tx) => tx.streams[i].isActive = streams[i].isActive
          /\ ~ok /\ streams[i].isActive => Failed(tx) /\ tx.streams[i].isActive
    IN /\ Transition(withdrawFromStream(c, i, a, ok))
       /\ \A p \in Users : Transition(withdrawFromStreamOnBehalf(c, i, p, a, ok))

\* C32 witness: a stream withdrawn from before its stop is still active with
\* funds left and an amount accrued; a withdraw whose push the token refuses
\* fails and leaves it active, one that the token accepts at this time keeps
\* it active too.
C32_Witness ==
  \E i \in StreamIds :
    /\ hist[i].lastOp = "withdraw"
    /\ streams[i].isActive
    /\ now < streams[i].stopTime
    /\ streams[i].remaining > 1
    /\ withdrawFromStream(streams[i].recipient, i, 0, FALSE).err = ErrPushRecipient
    /\ withdrawFromStream(streams[i].recipient, i, 0, TRUE).streams[i].isActive

\* C33: a successful pause at time now, with w the withdrawable amount at
\* now, pushes exactly w to the recipient and nothing to the sender, takes w
\* off remaining, stores max(0, stop - now) in the stop field, sets the stream
\* inactive and leaves start, rate and deposit as they were; with w = 0 no
\* call to the token is made, so the pause of a party succeeds whatever the
\* token would answer.
C33_PauseEffect ==
  \A i \in StreamIds, c \in Users, ok \in BOOLEAN :
    LET s == streams[i]
        w == withdrawableAmount(streams, i, now)
        timeLeft == IF s.stopTime - now > 0 THEN s.stopTime - now ELSE 0
        tx == pauseStream(c, i, ok)
    IN /\ ~Failed(tx) =>
            /\ w # Panic
            /\ tx.pushRecipient = w
            /\ tx.pushSender = 0
            /\ PaidTo(tx, s.recipient, w)
            /\ tx.streams[i] = [s EXCEPT !.remaining = s.remaining - w,
                                         !.stopTime = timeLeft,
                                         !.isActive = FALSE]
       /\ s.isActive /\ w = 0 /\ c \in {s.sender, s.recipient} =>
            ~Failed(tx) /\ tx.bal = bal

\* C33 witness: a stream of deposit 3 over the window 0..3 paused at time 1:
\* 1 was pushed to the recipient, remaining is 2, the stop field holds the 2
\* seconds left, start is the one of the creation and the stream is inactive.
C33_Witness ==
  \E i \in StreamIds :
    /\ hist[i].lastOp = "pause"
    /\ hist[i].cycle = "in"
    /\ hist[i].toRecipient = 1
    /\ streams[i].deposit = 3
    /\ streams[i].remaining = 2
    /\ streams[i].stopTime = 2
    /\ hist[i].stopTime0 = 3
    /\ streams[i].startTime = hist[i].startTime0
    /\ ~streams[i].isActive

\* The step is a successful pause of stream i.
PausedNow(i) ==
  /\ streams[i].isActive
  /\ ~streams'[i].isActive
  /\ hist'[i].lastOp = "pause"

\* A successful resume of the paused stream i restarts it at now over the
\* time stored in its stop field, moves no tokens and keeps rate, deposit and
\* remaining; the sender's resume succeeds while funds are left.
ResumeRestoresWindow(i) ==
  LET s == streams[i] IN
  /\ \A c \in Users :
       LET tx == resumeStream(c, i)
       IN ~Failed(tx) =>
            /\ tx.streams[i] = [s EXCEPT !.startTime = now,
                                         !.stopTime = now + s.stopTime,
                                         !.isActive = TRUE]
            /\ tx.bal = bal
            /\ tx.pushRecipient = 0
            /\ tx.pushSender = 0
  /\ s.remaining > 0 => ~Failed(resumeStream(s.sender, i))

\* C34: a pause at time tp stores max(0, stop - tp) in the stop field; while
\* the stream is paused only a resume changes its record; a successful resume
\* at time now sets start = now, stop = now + the stored time left and
\* active = true, moves no tokens and leaves rate, deposit and remaining
\* unchanged, so the restored window is as long as the time left at the pause.
C34_ResumeEffect ==
  /\ [](\A i \in StreamIds : Paused(i) => ResumeRestoresWindow(i))
  /\ [][\A i \in StreamIds :
          /\ PausedNow(i) =>
               streams'[i].stopTime
                 = IF streams[i].stopTime - now > 0 THEN streams[i].stopTime - now ELSE 0
          /\ Paused(i) /\ streams'[i] # streams[i] =>
               /\ hist'[i].lastOp = "resume"
               /\ streams'[i].startTime = now
               /\ streams'[i].stopTime - streams'[i].startTime = streams[i].stopTime
               /\ streams'[i].isActive
               /\ streams'[i].ratePerSecond = streams[i].ratePerSecond
               /\ streams'[i].deposit = streams[i].deposit
               /\ streams'[i].remaining = streams[i].remaining
               /\ bal' = bal]_vars

\* C34 witness: a stream created over 0..3, paused inside its window and
\* resumed later: it is active, its start is after the original one, its
\* window is 2 seconds long and ends after the original stop, and the 2
\* tokens left at the pause are still in remaining.
C34_Witness ==
  \E i \in StreamIds :
    /\ hist[i].lastOp = "resume"
    /\ hist[i].cycle = "in-resumed"
    /\ hist[i].stopTime0 = 3
    /\ streams[i].isActive
    /\ streams[i].startTime = 2
    /\ streams[i].stopTime = 4
    /\ streams[i].remaining = 2
    /\ hist[i].toRecipient = 1

\* min(deposit, (min(t, stop) - start) * rate) - (deposit - remaining) for stream i.
AccruedLessDisbursed(i, t) ==
  LET s == streams[i]
      elapsed == (IF t < s.stopTime THEN t ELSE s.stopTime) - s.startTime
      earned == elapsed * s.ratePerSecond
  IN (IF earned < s.deposit THEN earned ELSE s.deposit) - (s.deposit - s.remaining)

\* C35: on the record as it stands after the last mutating operation, at
\* every time t from now on, withdrawableAmount returns 0 when the stream is
\* inactive or t < start, and otherwise returns
\* min(deposit, (min(t, stop) - start) * rate) - (deposit - remaining); it
\* never exceeds remaining, is non-decreasing in t from start on and constant
\* from stop on.
C35_Accrual ==
  \A i \in StreamIds :
    LET s == streams[i]
        w(t) == withdrawableAmount(streams, i, t)
    IN /\ \A t \in now..MaxTime :
            /\ ~s.isActive \/ t < s.startTime => w(t) = 0
            /\ s.isActive /\ t >= s.startTime =>
                 /\ w(t) # Panic
                 /\ w(t) = AccruedLessDisbursed(i, t)
                 /\ w(t) <= s.remaining
       /\ \A t1 \in now..MaxTime, t2 \in now..MaxTime :
            s.isActive /\ s.startTime <= t1 /\ t1 <= t2 =>
              /\ w(t1) <= w(t2)
              /\ t1 >= s.stopTime => w(t1) = w(t2)

\* C36: in every reachable state, for every active stream, cancelStream
\* called by the stream's sender at the current time with a token that
\* accepts the pushes succeeds: it fails neither in the withdrawable
\* computation nor in the refund subtraction, and leaves the stream inactive
\* with remaining 0.
C36_SenderCanCancel ==
  \A i \in StreamIds :
    streams[i].isActive =>
      LET tx == cancelStream(streams[i].sender, i, TRUE, TRUE)
      IN /\ ~Failed(tx)
         /\ ~tx.streams[i].isActive
         /\ tx.streams[i].remaining = 0
         /\ tx.pushRecipient + tx.pushSender = streams[i].remaining

\* C36 witness: a stream paused inside its window and resumed, active, at a
\* time where withdrawableAmount itself underflows; the sender's cancel
\* succeeds all the same.
C36_Witness ==
  \E i \in StreamIds :
    /\ hist[i].cycle = "in-resumed"
    /\ hist[i].lastOp = "resume"
    /\ streams[i].isActive
    /\ now > streams[i].startTime
    /\ withdrawableAmount(streams, i, now) = Panic
    /\ cancelStream(streams[i].sender, i, TRUE, TRUE).err = ErrNone

\* C37: after a successful withdraw of an amount a with 0 < a < w, where w is
\* the withdrawable amount at the time of the call, a further withdraw of
\* w - a by the recipient at the same time, with a token that accepts the
\* push, succeeds and pays w - a; also when now >= stop.
C37_PartialWithdrawKeepsRest ==
  [][\A i \in StreamIds, r \in Amounts :
       LET w == withdrawableAmount(streams, i, now)
           a == hist'[i].toRecipient - hist[i].toRecipient
       IN streams[i].isActive /\ w # Panic /\ hist'[i].lastOp = "withdraw"
            /\ 0 < a /\ a < w /\ r = w - a /\ now' = now =>
            (LET tx == withdrawFromStream(streams[i].recipient, i, r, TRUE)
             IN ~Failed(tx) /\ tx.pushRecipient = r)']_vars

\* The sum of remaining over all streams of storage st.
SumRemaining(st) ==
  LET sum[n \in 0..(MaxStreams + 1)] == IF n = 0 THEN 0 ELSE st[n].remaining + sum[n - 1]
  IN sum[MaxStreams + 1]

\* What a call on stream i pushes comes out of that stream's remaining and
\* of what the contract holds, and the call leaves the contract holding the
\* sum of remaining: with a token that accepts, no push fails.
PushCovered(tx, i) ==
  /\ tx.err \notin {ErrPushRecipient, ErrPushSender}
  /\ tx.pushRecipient + tx.pushSender <= streams[i].remaining
  /\ tx.pushRecipient + tx.pushSender <= bal[THIS]
  /\ tx.bal[THIS] = SumRemaining(tx.streams)

\* C38: in every reachable state the contract's holding of the token equals
\* the sum of remaining over all streams; every push computed by a withdraw, a
\* pause or a cancel is covered by the remaining of the stream it is made for
\* and by the holding, and every create, withdraw, pause and cancel leaves
\* the holding equal to the sum of remaining.
C38_LedgerSolvency ==
  /\ bal[THIS] = SumRemaining(streams)
  /\ \A i \in StreamIds, c \in Users :
       /\ \A a \in Amounts : PushCovered(withdrawFromStream(c, i, a, TRUE), i)
       /\ PushCovered(cancelStream(c, i, TRUE, TRUE), i)
       /\ PushCovered(pauseStream(c, i, TRUE), i)

\* C38 witness: two streams hold funds, the first after a withdraw, the
\* second after a pause that paid its recipient; the contract holds the two
\* remaining amounts together, and more than either of them.
C38_Witness ==
  /\ hist[1].lastOp = "withdraw"
  /\ streams[1].remaining > 0
  /\ hist[2].lastOp = "pause"
  /\ hist[2].toRecipient > 0
  /\ streams[2].remaining > 0
  /\ bal[THIS] = streams[1].remaining + streams[2].remaining
  /\ cancelStream(streams[1].sender, 1, TRUE, TRUE).bal[THIS] = streams[2].remaining

\* Every withdraw, cancel, pause and resume call addressed to id i, direct or
\* on behalf of any principal (the zero address included), by any caller and
\* whatever the token would answer, fails and changes nothing.
AllCallsRejected(i) ==
  \A c \in Users, ok1 \in BOOLEAN :
    /\ \A a \in Amounts :
         LET tx == withdrawFromStream(c, i, a, ok1) IN Failed(tx) /\ Untouched(tx)
    /\ \A a \in Amounts, p \in Addresses :
         LET tx == withdrawFromStreamOnBehalf(c, i, p, a, ok1) IN Failed(tx) /\ Untouched(tx)
    /\ \A ok2 \in BOOLEAN :
         LET tx == cancelStream(c, i, ok1, ok2) IN Failed(tx) /\ Untouched(tx)
    /\ \A ok2 \in BOOLEAN, p \in Addresses :
         LET tx == cancelStreamOnBehalf(c, i, p, ok1, ok2) IN Failed(tx) /\ Untouched(tx)
    /\ LET tx == pauseStream(c, i, ok1) IN Failed(tx) /\ Untouched(tx)
    /\ LET tx == resumeStream(c, i) IN Failed(tx) /\ Untouched(tx)

\* C39: for an id that no create has returned, the record is the empty one,
\* withdrawableAmount is 0 at every time, and every withdraw,
\* withdrawOnBehalf, cancel, cancelOnBehalf, pause and resume call by any
\* caller fails, stores no record and moves no tokens.
C39_UnknownIdRejected ==
  \A i \in StreamIds :
    ~Exists(i) =>
      /\ streams[i] = NoStream
      /\ \A t \in Times : withdrawableAmount(streams, i, t) = 0
      /\ AllCallsRejected(i)

\* C39 witness: one stream is stored and funded and a cancel grant is in
\* place; id 2 was never issued: the resume of alice on it is refused as not
\* the sender's, the withdraw on behalf of the zero address for want of a
\* grant, the pause as not active.
C39_Witness ==
  /\ nextStreamId = 2
  /\ ~Exists(2)
  /\ streams[1].isActive
  /\ bal[THIS] > 0
  /\ auth # {}
  /\ resumeStream("alice", 2).err = ErrOnlySender
  /\ withdrawFromStreamOnBehalf("carol", 2, ZERO, 0, TRUE).err = ErrNotAuthWithdraw
  /\ pauseStream("alice", 2, TRUE).err = ErrNotActive

\* A call of the token failed and left the supply, the balances, the minters
\* and the owner as they were.
TokenRejected(tx) ==
  /\ tx.err # ErrNone
  /\ tx._totalSupply = _totalSupply
  /\ tx._balances = _balances
  /\ tx._minters = _minters
  /\ tx._owner = _owner

\* C40: after construction and any sequence of calls, totalSupply <=
\* MAX_SUPPLY; a mint or faucet call that would take the supply over the cap,
\* a faucet call for more than the faucet limit, and a mint by an account
\* that is neither the owner nor a currently added minter fail and leave the
\* supply and the balances unchanged; no mint, faucet or burn call leaves the
\* supply over the cap.
C40_SupplyCap ==
  /\ _totalSupply <= MAX_SUPPLY
  /\ \A c \in Users, a \in TokenAmounts :
       /\ faucet(c, a)._totalSupply <= MAX_SUPPLY
       /\ burn(c, a)._totalSupply <= MAX_SUPPLY
       /\ _totalSupply + a > MAX_SUPPLY \/ a > FaucetLimit => TokenRejected(faucet(c, a))
       /\ \A to \in Accounts :
            /\ mint(c, to, a)._totalSupply <= MAX_SUPPLY
            /\ _totalSupply + a > MAX_SUPPLY => TokenRejected(mint(c, to, a))
            /\ c # _owner /\ c \notin _minters => TokenRejected(mint(c, to, a))

\* C40 witness: the supply is at the cap, alice has handed the ownership to
\* bob, carol is an added minter and holds tokens: a mint of alice is refused
\* as not a minter's, a mint of carol and a faucet call as exceeding the cap,
\* and a faucet call for more than the limit as over the limit.
C40_Witness ==
  /\ _totalSupply = MAX_SUPPLY
  /\ _owner = "bob"
  /\ _minters = {"carol"}
  /\ _balances["carol"] > 0
  /\ mint("alice", "alice", 0).err = ErrNotMinter
  /\ mint("carol", "alice", 1).err = ErrExceedsSupply
  /\ faucet("bob", 1).err = ErrExceedsSupply
  /\ faucet("bob", FaucetLimit + 1).err = ErrFaucetLimit
====
